---------------------------- MODULE Spec2Model ----------------------------
(***************************************************************************)
(* Levitation height controller of the orb base-station firmware           *)
(* (src/orb/firmware/base/src/levitation): calibration, motion generator,  *)
(* CBF safety verifier, safety interlock and the HeightController that     *)
(* composes them.                                                          *)
(*                                                                         *)
(* Number representation.  The firmware computes in f32.  The model uses   *)
(* integers:                                                               *)
(*   - lengths, velocities, temperatures, voltages: units of 1/Milli       *)
(*     (micrometres, um/s, milli-degrees, millivolts);                     *)
(*   - barrier values h(x): units of 1/H_ONE, H_ONE a common multiple of   *)
(*     the verifier's divisors, so that the six values are exact and       *)
(*     their signs and order are those of the real-valued expressions;     *)
(*   - elapsed times and durations: f32 values below 4 s are integer       *)
(*     multiples of 2^-29 s, and the f32 sum `elapsed += dt` is modelled   *)
(*     exactly (round to nearest, ties to even, 24-bit significand).       *)
(***************************************************************************)
EXTENDS Integers, Sequences, FiniteSets, TLC

VARIABLES
    height_cal,           \* HeightController.height_cal : CalibrationData
    wpt_cal,              \* HeightController.wpt_cal : WptCalibrationData
    motion,               \* HeightController.motion : HeightMotionGenerator
    state,                \* HeightController.state : LevitationState
    mode,                 \* HeightController.mode : LevitationMode
    interlock,            \* HeightController.interlock : SafetyInterlockManager
    last_adc_value,       \* HeightController.last_adc_value
    last_dac_voltage,     \* HeightController.last_dac_voltage
    velocity_filter,      \* HeightController.velocity_filter
    oscillation_detector, \* HeightController.oscillation_detector
    ret,                  \* the last operation called and what it returned
    unsafe_run,           \* history: consecutive unsafe results fed to the interlock
    safe_run,             \* history: consecutive safe results fed to the interlock
    prev_emergency,       \* history: interlock.emergency_active before the last operation
    lockout_requested,    \* history: trigger_lockout() was called since the last reset()
    sensor,               \* environment: the position sensor's ADC reading
    recorded,             \* history: the heights given to oscillation_detector since new()
    ticks,                \* number of HeightController::update calls so far
    cmds                  \* number of command calls so far

ctlVars == <<height_cal, wpt_cal, motion, state, mode, last_adc_value, last_dac_voltage,
             velocity_filter, oscillation_detector, sensor, recorded, ticks, cmds>>
ilkVars == <<interlock, ret, unsafe_run, safe_run, prev_emergency, lockout_requested>>
vars == <<height_cal, wpt_cal, motion, state, mode, interlock, last_adc_value, last_dac_voltage,
          velocity_filter, oscillation_detector, ret, unsafe_run, safe_run,
          prev_emergency, lockout_requested, sensor, recorded, ticks, cmds>>

---------------------------------------------------------------------------
(* Bounds of the model. *)

\* interlock.safe_cycles (u32) is explored up to this value
MaxSafeCycles == 103
\* interlock.violation_cycles (u32) is explored up to this value
MaxViolationCycles == 7
\* HeightController::update is called at most this often in a run
MaxTicks == 6
\* at most this many command methods are called in a run
MaxCmds == 2

---------------------------------------------------------------------------
(* Fixed-point resolution and the constants of levitation::constants. *)

Milli == 1000
H_ONE == 3 * Milli * Milli

HEIGHT_MIN_MM == 5 * Milli
HEIGHT_MAX_MM == 25 * Milli
HEIGHT_FLOAT_MM == 20 * Milli
HEIGHT_CHARGE_MM == 5 * Milli
MAX_DESCENT_RATE_MM_S == 15 * Milli
MAX_BOBBLE_AMPLITUDE_MM == 8 * Milli
MIN_BOBBLE_FREQ_HZ == Milli \div 10
MAX_BOBBLE_FREQ_HZ == 2 * Milli
CONTROL_RATE_HZ == 100
MAX_OSCILLATION_MM == 5 * Milli
MAX_COIL_TEMP_C == 80 * Milli
WARN_COIL_TEMP_C == 65 * Milli

Max(a, b) == IF a >= b THEN a ELSE b
Min(a, b) == IF a <= b THEN a ELSE b
Clamp(x, lo, hi) == IF x < lo THEN lo ELSE IF x > hi THEN hi ELSE x

None == <<>>
Some(x) == <<x>>
IsSome(o) == o # <<>>
Unwrap(o) == o[1]

---------------------------------------------------------------------------
(* LevitationMode (mod.rs): a tagged union. *)

ModeFloat(h) == [kind |-> "Float", height_mm |-> h]
ModeCharging(h, w) == [kind |-> "Charging", target_height_mm |-> h, charge_rate_w |-> w]
ModeBobble(c, a, f) == [kind |-> "Bobble", center_mm |-> c, amplitude_mm |-> a, frequency_hz |-> f]
ModeLanding(h, r) == [kind |-> "Landing", current_height_mm |-> h, descent_rate_mm_s |-> r]
ModeEmergencyLanding == [kind |-> "EmergencyLanding"]
ModeLifted == [kind |-> "Lifted"]
ModeTransitioning(from, to, p) == [kind |-> "Transitioning", from |-> from, to |-> to, progress |-> p]

\* LevitationState::default(): all numbers 0, flags false, mode Lifted
DefaultLevitationState ==
    [height_mm |-> 0, velocity_mm_s |-> 0, oscillation_amplitude_mm |-> 0,
     electromagnet_temp_c |-> 0, wpt_coil_temp_c |-> 0, power_supply_ok |-> FALSE,
     mode |-> ModeLifted, orb_present |-> FALSE, stable |-> FALSE]

---------------------------------------------------------------------------
(* LevitationSafetyVerifier (safety.rs). *)

\* LevitationSafetyVerifier::default()
DefaultVerifier ==
    [max_height_mm |-> HEIGHT_MAX_MM + 5 * Milli,
     min_height_mm |-> HEIGHT_MIN_MM - 2 * Milli,
     max_descent_rate_mm_s |-> MAX_DESCENT_RATE_MM_S,
     max_oscillation_mm |-> MAX_OSCILLATION_MM,
     max_coil_temp_c |-> MAX_COIL_TEMP_C,
     warn_coil_temp_c |-> WARN_COIL_TEMP_C]

\* The f32 value NaN, which a field of LevitationState can hold: every
\* comparison with it is false and every sum or quotient of it is NaN.
NaN == -2147483647
IsNaN(x) == x = NaN
F32Lt(a, b) == ~IsNaN(a) /\ ~IsNaN(b) /\ a < b
F32Ge(a, b) == ~IsNaN(a) /\ ~IsNaN(b) /\ a >= b
F32Le(a, b) == ~IsNaN(a) /\ ~IsNaN(b) /\ a <= b
F32Gt(a, b) == ~IsNaN(a) /\ ~IsNaN(b) /\ a > b
\* f32::max: the other operand when one is NaN
F32Max(a, b) == IF IsNaN(a) THEN b ELSE IF IsNaN(b) THEN a ELSE Max(a, b)
\* f32::clamp with ordinary bounds: NaN stays NaN
F32Clamp(x, lo, hi) == IF IsNaN(x) THEN NaN ELSE Clamp(x, lo, hi)
\* a + b and a - b in f32, as far as NaN goes
F32Plus(a, b) == IF IsNaN(a) \/ IsNaN(b) THEN NaN ELSE a + b
F32Minus(a, b) == IF IsNaN(a) \/ IsNaN(b) THEN NaN ELSE a - b

\* num / den as a barrier value; den divides H_ONE for the default thresholds
HDiv(num, den) == num * (H_ONE \div den)

h_height_upper(v, s) ==
    IF IsNaN(s.height_mm) THEN NaN
    ELSE HDiv(v.max_height_mm - s.height_mm, 10 * Milli)

h_height_lower(v, s) ==
    IF IsNaN(s.height_mm) THEN NaN
    ELSE HDiv(s.height_mm - v.min_height_mm, 5 * Milli)

\* h_descent_rate that takes the magnitude of the velocity, rising or not
h_descent_rate_Magnitude(v, s) ==
    IF IsNaN(s.velocity_mm_s) THEN NaN
    ELSE HDiv(v.max_descent_rate_mm_s
                - (IF s.velocity_mm_s >= 0 THEN s.velocity_mm_s ELSE -s.velocity_mm_s),
              v.max_descent_rate_mm_s)

h_descent_rate(v, s) ==
    IF F32Ge(s.velocity_mm_s, 0)
    THEN H_ONE
    ELSE IF IsNaN(s.velocity_mm_s) THEN NaN
    ELSE HDiv(v.max_descent_rate_mm_s - (-s.velocity_mm_s), v.max_descent_rate_mm_s)

h_oscillation(v, s) ==
    IF IsNaN(s.oscillation_amplitude_mm) THEN NaN
    ELSE HDiv(v.max_oscillation_mm - s.oscillation_amplitude_mm, v.max_oscillation_mm)

h_thermal(v, s) ==
    LET temp == F32Max(s.electromagnet_temp_c, s.wpt_coil_temp_c)
    IN  IF F32Lt(temp, v.warn_coil_temp_c) THEN H_ONE
        ELSE IF F32Ge(temp, v.max_coil_temp_c) THEN -H_ONE
        ELSE IF IsNaN(temp) THEN NaN
        ELSE HDiv(v.max_coil_temp_c - temp, v.max_coil_temp_c - v.warn_coil_temp_c)

\* a power constraint that reports a failed supply as the boundary value 0.0
h_power_Boundary(v, s) == IF s.power_supply_ok THEN H_ONE ELSE 0

h_power(v, s) == IF s.power_supply_ok THEN H_ONE ELSE -H_ONE

\* f32::MAX, the fold's initial minimum: above every barrier value of the model
F32_MAX_H == 2147483647

\* a fold that replaces the minimum on `<=`: the last minimum wins
RECURSIVE FoldMin_LastWins(_, _)
FoldMin_LastWins(h_values, n) ==
    IF n = 0 THEN <<F32_MAX_H, "None">>
    ELSE LET acc == FoldMin_LastWins(h_values, n - 1)
             h == h_values[n][1]
         IN  IF ~IsNaN(h) /\ h <= acc[1] THEN h_values[n] ELSE acc

\* the fold of compute_barrier over h_values[1..n]
RECURSIVE FoldMin(_, _)
FoldMin(h_values, n) ==
    IF n = 0 THEN <<F32_MAX_H, "None">>
    ELSE LET acc == FoldMin(h_values, n - 1)
         IN  IF F32Lt(h_values[n][1], acc[1]) THEN h_values[n] ELSE acc

compute_barrier(v, s) ==
    LET constraints ==
            [h_height_upper |-> h_height_upper(v, s),
             h_height_lower |-> h_height_lower(v, s),
             h_descent_rate |-> h_descent_rate(v, s),
             h_oscillation  |-> h_oscillation(v, s),
             h_thermal      |-> h_thermal(v, s),
             h_power        |-> h_power(v, s)]
        h_values ==
            << <<constraints.h_height_upper, "HeightUpperBound">>,
               <<constraints.h_height_lower, "HeightLowerBound">>,
               <<constraints.h_descent_rate, "DescentRate">>,
               <<constraints.h_oscillation, "Oscillation">>,
               <<constraints.h_thermal, "Thermal">>,
               <<constraints.h_power, "PowerFailure">> >>
        m == FoldMin(h_values, 6)
    IN  [safe |-> m[1] > 0, margin |-> m[1], limiting_constraint |-> m[2],
         constraints |-> constraints]

\* k * (1.0 - x) for a barrier value x, in um/s
RateTimesOneMinus(k, x) == (H_ONE - x) \div (H_ONE \div (k * Milli))

corrective_action(v, result) ==
    IF result.safe /\ 2 * result.margin > H_ONE THEN 0
    ELSE CASE result.limiting_constraint = "HeightUpperBound" ->
                  -RateTimesOneMinus(5, Max(result.margin, 0))
           [] result.limiting_constraint = "HeightLowerBound" ->
                  RateTimesOneMinus(5, Max(result.margin, 0))
           [] result.limiting_constraint = "DescentRate" -> 3 * Milli
           [] result.limiting_constraint = "Oscillation" -> 0
           [] result.limiting_constraint = "Thermal" ->
                  IF result.margin < 0 THEN 10 * Milli
                  ELSE RateTimesOneMinus(3, result.margin)
           [] result.limiting_constraint = "PowerFailure" -> 0
           [] OTHER -> 0

---------------------------------------------------------------------------
(* SafetyInterlockManager (safety.rs). *)

\* SafetyInterlockManager::new()
NewInterlock ==
    [safe_cycles |-> 0, violation_cycles |-> 0, last_margin |-> 0,
     emergency_active |-> FALSE, lockout |-> FALSE]

\* update() that forgets `self.violation_cycles = 0` in the safe branch
IlkUpdate_KeepViolations(m, result) ==
    LET counted == IF result.safe THEN [m EXCEPT !.safe_cycles = @ + 1]
                   ELSE [m EXCEPT !.violation_cycles = @ + 1, !.safe_cycles = 0]
        decided == IF result.safe
                   THEN IF counted.safe_cycles > 100 /\ ~counted.lockout
                        THEN [counted EXCEPT !.emergency_active = FALSE] ELSE counted
                   ELSE IF counted.violation_cycles >= 5
                        THEN [counted EXCEPT !.emergency_active = TRUE] ELSE counted
    IN  [decided EXCEPT !.last_margin = result.margin]

\* update() that forgets `self.safe_cycles = 0` in the unsafe branch
IlkUpdate_KeepSafe(m, result) ==
    LET counted == IF result.safe THEN [m EXCEPT !.safe_cycles = @ + 1, !.violation_cycles = 0]
                   ELSE [m EXCEPT !.violation_cycles = @ + 1]
        decided == IF result.safe
                   THEN IF counted.safe_cycles > 100 /\ ~counted.lockout
                        THEN [counted EXCEPT !.emergency_active = FALSE] ELSE counted
                   ELSE IF counted.violation_cycles >= 5
                        THEN [counted EXCEPT !.emergency_active = TRUE] ELSE counted
    IN  [decided EXCEPT !.last_margin = result.margin]

\* update() that clears the emergency without looking at `self.lockout`
IlkUpdate_IgnoreLockout(m, result) ==
    LET counted == IF result.safe THEN [m EXCEPT !.safe_cycles = @ + 1, !.violation_cycles = 0]
                   ELSE [m EXCEPT !.violation_cycles = @ + 1, !.safe_cycles = 0]
        decided == IF result.safe
                   THEN IF counted.safe_cycles > 100
                        THEN [counted EXCEPT !.emergency_active = FALSE] ELSE counted
                   ELSE IF counted.violation_cycles >= 5
                        THEN [counted EXCEPT !.emergency_active = TRUE] ELSE counted
    IN  [decided EXCEPT !.last_margin = result.margin]

\* SafetyInterlockManager::update: the manager afterwards; the value returned
\* is its emergency_active
IlkUpdate(m, result) ==
    LET counted ==
            IF result.safe
            THEN [m EXCEPT !.safe_cycles = @ + 1, !.violation_cycles = 0]
            ELSE [m EXCEPT !.violation_cycles = @ + 1, !.safe_cycles = 0]
        decided ==
            IF result.safe
            THEN IF counted.safe_cycles > 100 /\ ~counted.lockout
                 THEN [counted EXCEPT !.emergency_active = FALSE]
                 ELSE counted
            ELSE IF counted.violation_cycles >= 5
                 THEN [counted EXCEPT !.emergency_active = TRUE]
                 ELSE counted
    IN  [decided EXCEPT !.last_margin = result.margin]

IlkIsEmergency(m) == m.emergency_active

IlkIsLockedOut(m) == m.lockout

\* trigger_lockout() that sets `lockout` and leaves `emergency_active` alone
IlkTriggerLockout_LockoutOnly(m) == [m EXCEPT !.lockout = TRUE]

IlkTriggerLockout(m) == [m EXCEPT !.lockout = TRUE, !.emergency_active = TRUE]

IlkReset(m) ==
    [m EXCEPT !.lockout = FALSE, !.emergency_active = FALSE,
              !.safe_cycles = 0, !.violation_cycles = 0]

---------------------------------------------------------------------------
(* CalibrationData and WptCalibrationData (calibration.rs). *)

CalibrationPoint(h, adc, dac) == [height_mm |-> h, adc_value |-> adc, dac_voltage |-> dac]

\* CalibrationData::default(): 5 points, 5..25 mm, 3800..1400 counts, 2.5..0.5 V
DefaultCalibration ==
    [points |-> << CalibrationPoint(5 * Milli, 3800, (5 * Milli) \div 2),
                   CalibrationPoint(10 * Milli, 3200, 2 * Milli),
                   CalibrationPoint(15 * Milli, 2600, (3 * Milli) \div 2),
                   CalibrationPoint(20 * Milli, 2000, Milli),
                   CalibrationPoint(25 * Milli, 1400, Milli \div 2) >>,
     num_points |-> 5]

\* WptCalibrationData::default(): (height, frequency in Hz)
DefaultWptCalibration ==
    [points |-> << <<5 * Milli, 132000>>, <<10 * Milli, 136000>>,
                   <<15 * Milli, 138000>>, <<20 * Milli, 141000>> >>]

\* the least index of a non-empty set of loop indices: the first iteration
\* of a `for` loop whose condition holds
FirstIndex(I) == CHOOSE i \in I : \A j \in I : i <= j

\* adc_to_height that follows the last segment below the last point instead
\* of stopping at its height
adc_to_height_FollowsLastSegment(cal, adc_value) ==
    LET n == cal.num_points
        P == cal.points
        hits == {i \in 1 .. n - 1 :
                    adc_value <= P[i].adc_value /\ adc_value >= P[i + 1].adc_value}
        i == IF hits = {} THEN n - 1 ELSE FirstIndex(hits)
    IN  IF adc_value >= P[1].adc_value THEN P[1].height_mm
        ELSE P[i].height_mm
             + ((P[i].adc_value - adc_value) * (P[i + 1].height_mm - P[i].height_mm))
               \div (P[i].adc_value - P[i + 1].adc_value)

adc_to_height(cal, adc_value) ==
    LET n == cal.num_points
        P == cal.points
        hits == {i \in 1 .. n - 1 :
                    adc_value <= P[i].adc_value /\ adc_value >= P[i + 1].adc_value}
    IN  IF adc_value >= P[1].adc_value THEN P[1].height_mm
        ELSE IF adc_value <= P[n].adc_value THEN P[n].height_mm
        ELSE IF hits = {} THEN 15 * Milli
        ELSE LET i == FirstIndex(hits)
                 p1 == P[i]
                 p2 == P[i + 1]
             IN  IF IsNaN(p1.height_mm) \/ IsNaN(p2.height_mm) THEN NaN
                 ELSE p1.height_mm
                      + ((p1.adc_value - adc_value) * (p2.height_mm - p1.height_mm))
                        \div (p1.adc_value - p2.adc_value)

\* height_to_dac without the clamp and the bound checks: the line through the
\* first two points, followed beyond them
height_to_dac_Extrapolates(cal, height_mm) ==
    LET p1 == cal.points[1]
        p2 == cal.points[2]
    IN  IF IsNaN(height_mm) THEN (3 * Milli) \div 2
        ELSE p1.dac_voltage
             + ((height_mm - p1.height_mm) * (p2.dac_voltage - p1.dac_voltage))
               \div (p2.height_mm - p1.height_mm)

height_to_dac(cal, height_mm) ==
    LET n == cal.num_points
        P == cal.points
        height == F32Clamp(height_mm, HEIGHT_MIN_MM, HEIGHT_MAX_MM)
        hits == {i \in 1 .. n - 1 :
                    F32Ge(height, P[i].height_mm) /\ F32Le(height, P[i + 1].height_mm)}
    IN  IF F32Le(height, P[1].height_mm) THEN P[1].dac_voltage
        ELSE IF F32Ge(height, P[n].height_mm) THEN P[n].dac_voltage
        ELSE IF hits = {} THEN (3 * Milli) \div 2
        ELSE LET i == FirstIndex(hits)
                 p1 == P[i]
                 p2 == P[i + 1]
             IN  IF IsNaN(p1.dac_voltage) \/ IsNaN(p2.dac_voltage) THEN NaN
                 ELSE IF p2.height_mm = p1.height_mm THEN NaN
                 ELSE p1.dac_voltage
                      + ((height - p1.height_mm) * (p2.dac_voltage - p1.dac_voltage))
                        \div (p2.height_mm - p1.height_mm)

optimal_frequency(wpt, height_mm) ==
    LET P == wpt.points
        n == Len(P)
        height == F32Clamp(height_mm, 5 * Milli, 25 * Milli)
        hits == {i \in 1 .. n - 1 : F32Ge(height, P[i][1]) /\ F32Le(height, P[i + 1][1])}
    IN  IF hits # {}
        THEN LET i == FirstIndex(hits)
             IN  P[i][2] + ((height - P[i][1]) * (P[i + 1][2] - P[i][2]))
                           \div (P[i + 1][1] - P[i][1])
        ELSE IF F32Lt(height, P[1][1]) THEN P[1][2] ELSE P[n][2]

\* CalibrationData::from_points: the first five points copied over the
\* default table, num_points the number given, at most 5
from_points(points) ==
    [points |-> [i \in 1 .. 5 |-> IF i <= Len(points) THEN points[i]
                                  ELSE DefaultCalibration.points[i]],
     num_points |-> Min(Len(points), 5)]

\* adc_to_height on a table of no points: the reading is below points[0]
\* and points[num_points - 1] is evaluated with num_points = 0, which
\* panics (overflow of the subtraction, or the index out of bounds)
AdcToHeightPanics(cal, adc_value) ==
    cal.num_points = 0 /\ adc_value < cal.points[1].adc_value

\* height_to_dac on a table of no points, for a height above points[0]
HeightToDacPanics(cal, height_mm) ==
    /\ cal.num_points = 0
    /\ ~F32Le(F32Clamp(height_mm, HEIGHT_MIN_MM, HEIGHT_MAX_MM), cal.points[1].height_mm)

\* CalibrationData::is_valid
is_valid(cal) ==
    LET n == cal.num_points
        P == cal.points
    IN  IF n < 3 THEN FALSE
        ELSE IF \E i \in 2 .. n : F32Le(P[i].height_mm, P[i - 1].height_mm) THEN FALSE
        ELSE IF \E i \in 2 .. n : F32Ge(P[i].dac_voltage, P[i - 1].dac_voltage) THEN FALSE
        ELSE /\ F32Ge(P[1].height_mm, 3 * Milli)
             /\ F32Le(P[1].height_mm, 10 * Milli)
             /\ F32Ge(P[n].height_mm, 20 * Milli)
             /\ F32Le(P[n].height_mm, 30 * Milli)
             /\ F32Gt(P[1].dac_voltage, 2 * Milli)
             /\ F32Lt(P[n].dac_voltage, Milli)

---------------------------------------------------------------------------
(* f32 time arithmetic: times are integer multiples of 2^-29 s. *)

\* one second, in units of 2^-29 s
SEC == 536870912

\* the spacing of f32 values around x (24-bit significand)
RECURSIVE Ulp(_)
Ulp(x) == IF x < 16777216 THEN 1 ELSE 2 * Ulp(x \div 2)

\* the f32 nearest to the integer x plus a fraction (0, less than half, half,
\* more than half: frac = 0, 1, 2, 3), ties to even
F32RoundFrac(x, frac) ==
    LET u == Ulp(x)
        q == x \div u
        r == x % u
        up == (q + 1) * u
        down == q * u
        cmp == IF u = 1
               THEN (IF frac <= 1 THEN -1 ELSE IF frac = 2 THEN 0 ELSE 1)
               ELSE (IF 2 * r < u THEN -1
                     ELSE IF 2 * r > u \/ frac > 0 THEN 1
                     ELSE 0)
    IN  IF r = 0 /\ frac = 0 THEN x
        ELSE IF cmp < 0 THEN down
        ELSE IF cmp > 0 THEN up
        ELSE IF q % 2 = 0 THEN down ELSE up

\* the f32 sum a + b of two f32 times
F32Add(a, b) == F32RoundFrac(a + b, 0)

\* the f32 quotient num / den of two small integers, as a time (the result is
\* kept to 2^-29 s, which is exact from 2^-5 s upward)
F32Quot(num, den) ==
    LET whole == num \div den
        r1 == num % den
        a == (r1 * 32768) \div den
        r2 == (r1 * 32768) % den
        b == (r2 * 16384) \div den
        r3 == (r2 * 16384) % den
        x == whole * SEC + a * 16384 + b
        frac == IF r3 = 0 THEN 0
                ELSE IF 2 * r3 < den THEN 1
                ELSE IF 2 * r3 = den THEN 2 ELSE 3
    IN  F32RoundFrac(x, frac)

\* dt = 1.0 / CONTROL_RATE_HZ as f32
DT == F32Quot(1, CONTROL_RATE_HZ)

---------------------------------------------------------------------------
(* HeightTrajectory (trajectory.rs). *)

\* a constructor that takes the duration as given
NewTrajectory_NoFloor(start, target, duration_s) ==
    [start_height |-> start, target_height |-> target,
     duration |-> duration_s, elapsed |-> 0]

\* HeightTrajectory::new: the duration is floored to 0.1 s by f32::max
NewTrajectory(start, target, duration_s) ==
    [start_height |-> start, target_height |-> target,
     duration |-> F32Max(duration_s, F32Quot(1, 10)), elapsed |-> 0]

to_charging(current_height) == NewTrajectory(current_height, HEIGHT_CHARGE_MM, 2 * SEC)

to_float(current_height) == NewTrajectory(current_height, HEIGHT_FLOAT_MM, (3 * SEC) \div 2)

\* s = t / duration, in thousandths
NormalizedTime(t, duration) == ((t \div 1024) * Milli) \div (duration \div 1024)

TrajSample(traj, t) ==
    IF t >= traj.duration THEN traj.target_height
    ELSE IF t <= 0 THEN traj.start_height
    ELSE IF IsNaN(traj.start_height) \/ IsNaN(traj.target_height) THEN NaN
    ELSE LET s == NormalizedTime(t, traj.duration)
             blend == (((s * s) \div Milli) * (3 * Milli - 2 * s)) \div Milli
         IN  traj.start_height
             + (blend * (traj.target_height - traj.start_height)) \div Milli

TrajSampleVelocity(traj, t) ==
    IF t <= 0 \/ t >= traj.duration THEN 0
    ELSE IF IsNaN(traj.start_height) \/ IsNaN(traj.target_height) THEN NaN
    ELSE LET s == NormalizedTime(t, traj.duration)
             blend_deriv == (6 * s * (Milli - s)) \div Milli
         IN  (((blend_deriv * (traj.target_height - traj.start_height)) \div Milli) * 1024)
             \div (traj.duration \div (SEC \div 1024))

\* HeightTrajectory::update that is complete only once elapsed > duration
TrajUpdate_Strict(traj, dt) ==
    LET t == [traj EXCEPT !.elapsed = F32Add(@, dt)]
    IN  [traj |-> t, complete |-> t.elapsed > t.duration]

\* HeightTrajectory::update: the trajectory afterwards and whether it is complete
TrajUpdate(traj, dt) ==
    LET t == [traj EXCEPT !.elapsed = F32Add(@, dt)]
    IN  [traj |-> t, complete |-> t.elapsed >= t.duration]

TrajCurrent(traj) == TrajSample(traj, traj.elapsed)

TrajCurrentVelocity(traj) == TrajSampleVelocity(traj, traj.elapsed)

---------------------------------------------------------------------------
(* BobbleAnimation (trajectory.rs).  Frequencies are in mHz and phases in    *)
(* thousandths of a cycle.                                                   *)

\* BobbleAnimation::new
NewAnimation(center, amplitude, frequency) ==
    [center_height |-> center, amplitude |-> amplitude, frequency |-> frequency,
     phase |-> 0, duration |-> None, elapsed |-> 0]

\* omega * t + phase, as thousandths of a cycle in 0 .. 999
AnimAngle(anim, t) ==
    ((((t \div 16384) * anim.frequency) \div 32768) + anim.phase) % Milli

\* sinf of an angle given in thousandths of a cycle, in thousandths
\* (Bhaskara's rational approximation on each half cycle: exact at 0, 1/4, 1/2)
SinMilli(th) ==
    LET p == 2 * (th % 500)
        q == p * (Milli - p)
        v == (16 * q) \div ((5 * Milli * Milli - 4 * q) \div Milli)
    IN  IF th < 500 THEN v ELSE -v

\* cosf, as sinf a quarter cycle ahead
CosMilli(th) == SinMilli((th + 250) % Milli)

AnimSample(anim, t) ==
    IF IsSome(anim.duration) /\ t >= Unwrap(anim.duration) THEN anim.center_height
    ELSE IF IsNaN(anim.center_height) \/ IsNaN(anim.amplitude) \/ IsNaN(anim.frequency)
    THEN NaN
    ELSE anim.center_height + (anim.amplitude * SinMilli(AnimAngle(anim, t))) \div Milli

\* amplitude * omega * cos(..), omega = 2 pi f with 2 pi taken as 6283/1000
AnimSampleVelocity(anim, t) ==
    IF IsSome(anim.duration) /\ t >= Unwrap(anim.duration) THEN 0
    ELSE IF IsNaN(anim.amplitude) \/ IsNaN(anim.frequency) THEN NaN
    ELSE LET omega == (6283 * anim.frequency) \div Milli
         IN  (((anim.amplitude * omega) \div Milli) * CosMilli(AnimAngle(anim, t))) \div Milli

\* BobbleAnimation::update that is complete only once elapsed > duration
AnimUpdate_Strict(anim, dt) ==
    LET a == [anim EXCEPT !.elapsed = F32Add(@, dt)]
    IN  [anim |-> a,
         complete |-> IsSome(a.duration) /\ a.elapsed > Unwrap(a.duration)]

\* BobbleAnimation::update: the animation afterwards and whether it is complete
AnimUpdate(anim, dt) ==
    LET a == [anim EXCEPT !.elapsed = F32Add(@, dt)]
    IN  [anim |-> a,
         complete |-> IsSome(a.duration) /\ a.elapsed >= Unwrap(a.duration)]

AnimCurrent(anim) == AnimSample(anim, anim.elapsed)

AnimCurrentVelocity(anim) == AnimSampleVelocity(anim, anim.elapsed)

---------------------------------------------------------------------------
(* HeightMotionGenerator (trajectory.rs). *)

\* HeightMotionGenerator::new
NewMotion == [trajectory |-> None, animation |-> None, baseline_height |-> HEIGHT_FLOAT_MM]

\* start_trajectory that forgets `self.animation = None`
start_trajectory_KeepAnimation(gen, traj) == [gen EXCEPT !.trajectory = Some(traj)]

start_trajectory(gen, traj) == [gen EXCEPT !.animation = None, !.trajectory = Some(traj)]

\* start_animation that forgets `self.trajectory = None`
start_animation_KeepTrajectory(gen, anim) == [gen EXCEPT !.animation = Some(anim)]

start_animation(gen, anim) == [gen EXCEPT !.trajectory = None, !.animation = Some(anim)]

MotionStop(gen, current_height) ==
    [gen EXCEPT !.trajectory = None, !.animation = None,
                !.baseline_height = current_height]

\* HeightMotionGenerator::update: the generator afterwards and the
\* (target_height, target_velocity) it returns
MotionUpdate(gen, dt) ==
    IF IsSome(gen.trajectory)
    THEN LET u == TrajUpdate(Unwrap(gen.trajectory), dt)
         IN  IF u.complete
             THEN [gen |-> [gen EXCEPT !.baseline_height = u.traj.target_height,
                                       !.trajectory = None],
                   target |-> u.traj.target_height, velocity |-> 0]
             ELSE [gen |-> [gen EXCEPT !.trajectory = Some(u.traj)],
                   target |-> TrajCurrent(u.traj),
                   velocity |-> TrajCurrentVelocity(u.traj)]
    ELSE IF IsSome(gen.animation)
    THEN LET u == AnimUpdate(Unwrap(gen.animation), dt)
         IN  IF u.complete
             THEN [gen |-> [gen EXCEPT !.animation = None],
                   target |-> gen.baseline_height, velocity |-> 0]
             ELSE [gen |-> [gen EXCEPT !.animation = Some(u.anim)],
                   target |-> AnimCurrent(u.anim),
                   velocity |-> AnimCurrentVelocity(u.anim)]
    ELSE [gen |-> gen, target |-> gen.baseline_height, velocity |-> 0]

MotionIsActive(gen) == IsSome(gen.trajectory) \/ IsSome(gen.animation)

---------------------------------------------------------------------------
(* VelocityFilter and OscillationDetector (controller.rs). *)

\* a / b rounded toward zero
TruncDiv(a, b) == IF a >= 0 THEN a \div b ELSE -((-a) \div b)

\* VelocityFilter::new; alpha = 0.3
NewVelocityFilter == [last_height |-> 0, velocity |-> 0]

\* VelocityFilter::update with dt = 1 / CONTROL_RATE_HZ > 0:
\* velocity = 0.3 * (height - last_height) / dt + 0.7 * velocity
VelocityFilterUpdate(f, height) ==
    LET raw_velocity == (height - f.last_height) * CONTROL_RATE_HZ
    IN  [last_height |-> height,
         velocity |-> TruncDiv(3 * raw_velocity + 7 * f.velocity, 10)]

\* the length of OscillationDetector.samples
OSC_SAMPLES == 32

\* a detector that reports from its first sample on
OscillationUpdate_FilledAtOnce(d, height) ==
    [samples |-> [d.samples EXCEPT ![d.index + 1] = height],
     index |-> (d.index + 1) % OSC_SAMPLES,
     filled |-> TRUE]

\* OscillationDetector::new (index is 0-based as in the source)
NewOscillationDetector ==
    [samples |-> [i \in 1 .. OSC_SAMPLES |-> 0], index |-> 0, filled |-> FALSE]

OscillationUpdate(d, height) ==
    LET index == (d.index + 1) % OSC_SAMPLES
    IN  [samples |-> [d.samples EXCEPT ![d.index + 1] = height],
         index |-> index,
         filled |-> d.filled \/ index = 0]

OscillationAmplitude(d) ==
    IF ~d.filled THEN 0
    ELSE LET max == CHOOSE x \in {d.samples[i] : i \in 1 .. OSC_SAMPLES} :
                        \A i \in 1 .. OSC_SAMPLES : d.samples[i] <= x
             min == CHOOSE x \in {d.samples[i] : i \in 1 .. OSC_SAMPLES} :
                        \A i \in 1 .. OSC_SAMPLES : d.samples[i] >= x
         IN  max - min

---------------------------------------------------------------------------
(* Inputs. *)

\* ADC readings (u16): 15 mm with the default calibration
AdcInputs == {2600}
\* (power_ok, coil_temp) of a tick: nominal, supply failure
TickInputs == {<<TRUE, 50 * Milli>>, <<FALSE, 50 * Milli>>}
\* set_height targets: the two bounds and their neighbours outside the range
TargetHeights == {HEIGHT_MIN_MM - 1, HEIGHT_MIN_MM, HEIGHT_MAX_MM, HEIGHT_MAX_MM + 1}
\* set_height durations (ms, u32)
DurationsMs == {200}
\* start_bobble amplitudes: the 3 mm and 15 mm of test_bobble_validation
Amplitudes == {3 * Milli, 15 * Milli}
\* start_bobble frequencies (mHz): the 0.5 Hz and 5 Hz of test_bobble_validation
Frequencies == {Milli \div 2, 5 * Milli}
\* set_charge_power inputs
ChargePowers == {5 * Milli}

\* the LevitationState of the verifier's tests (make_safe_state), and variations
SafeState ==
    [height_mm |-> 15 * Milli, velocity_mm_s |-> 0, oscillation_amplitude_mm |-> Milli,
     electromagnet_temp_c |-> 50 * Milli, wpt_coil_temp_c |-> 45 * Milli,
     power_supply_ok |-> TRUE, mode |-> ModeFloat(15 * Milli), orb_present |-> TRUE,
     stable |-> TRUE]
SampleStates ==
    {SafeState,
     [SafeState EXCEPT !.electromagnet_temp_c = 70 * Milli],
     [SafeState EXCEPT !.height_mm = 35 * Milli],
     [SafeState EXCEPT !.power_supply_ok = FALSE]}
\* the SafetyResults fed to a SafetyInterlockManager on its own
SafetyResults == {compute_barrier(DefaultVerifier, s) : s \in SampleStates}

---------------------------------------------------------------------------
(* Results of operations. *)

Ok(op, args, val) == [op |-> op, args |-> args, ok |-> TRUE, val |-> val]
Err(op, args, e) == [op |-> op, args |-> args, ok |-> FALSE, val |-> e]
\* the call did not return: it panicked
Panic(op, args) == [op |-> op, args |-> args, ok |-> FALSE, val |-> "panic"]
Panicked == ~ret.ok /\ ret.val = "panic"

\* history variables after an operation that feeds `result` to the interlock
Fed(result) ==
    /\ unsafe_run' = IF result.safe THEN 0 ELSE unsafe_run + 1
    /\ safe_run' = IF result.safe THEN safe_run + 1 ELSE 0
    /\ prev_emergency' = interlock.emergency_active
    /\ UNCHANGED lockout_requested

\* history variables after an operation that feeds nothing to the interlock
NotFed ==
    /\ prev_emergency' = interlock.emergency_active
    /\ UNCHANGED <<unsafe_run, safe_run, lockout_requested>>

\* history variables after trigger_lockout()
Tripped ==
    /\ prev_emergency' = interlock.emergency_active
    /\ lockout_requested' = TRUE
    /\ UNCHANGED <<unsafe_run, safe_run>>

\* history variables after a reset of the interlock
Restarted ==
    /\ prev_emergency' = interlock.emergency_active
    /\ unsafe_run' = 0
    /\ safe_run' = 0
    /\ lockout_requested' = FALSE

---------------------------------------------------------------------------
(* HeightController (controller.rs). *)

\* HeightController::new(), with a sensor reading
Init ==
    /\ height_cal = DefaultCalibration
    /\ wpt_cal = DefaultWptCalibration
    /\ motion = NewMotion
    /\ state = DefaultLevitationState
    /\ mode = ModeLifted
    /\ interlock = NewInterlock
    /\ last_adc_value = 0
    /\ last_dac_voltage = (3 * Milli) \div 2
    /\ velocity_filter = NewVelocityFilter
    /\ oscillation_detector = NewOscillationDetector
    /\ ret = Ok("new", <<>>, "unit")
    /\ unsafe_run = 0
    /\ safe_run = 0
    /\ prev_emergency = FALSE
    /\ lockout_requested = FALSE
    /\ sensor \in AdcInputs
    /\ recorded = <<>>
    /\ ticks = 0
    /\ cmds = 0

\* an update() that never applies the corrective action
CorrectedHeight_Uncorrected(safety_result, target_height) == target_height

\* the height update() maps to the actuator: corrected only when the result is unsafe
CorrectedHeight(safety_result, target_height) ==
    IF ~safety_result.safe
    THEN F32Clamp(F32Plus(target_height,
                          TruncDiv(corrective_action(DefaultVerifier, safety_result),
                                   CONTROL_RATE_HZ)),
                  HEIGHT_MIN_MM, HEIGHT_MAX_MM)
    ELSE target_height

\* an emergency output that holds the last actuator voltage
EmergencyOutput_HoldDac == <<last_dac_voltage, 0>>

\* what update() returns on a tick with emergency: Ok((0.0, 0.0))
EmergencyOutput == <<0, 0>>

\* update() that puts the controller in Lifted mode on the tick that completes
\* a trajectory
update_LiftedOnCompletion(adc_value, power_ok, coil_temp) ==
    LET height_mm == adc_to_height(height_cal, adc_value)
        vf == VelocityFilterUpdate(velocity_filter, height_mm)
        od == OscillationUpdate(oscillation_detector, height_mm)
        oscillation == OscillationAmplitude(od)
        st == [state EXCEPT !.height_mm = height_mm,
                            !.velocity_mm_s = vf.velocity,
                            !.oscillation_amplitude_mm = oscillation,
                            !.electromagnet_temp_c = coil_temp,
                            !.power_supply_ok = power_ok,
                            !.stable = (10 * oscillation < 7 * MAX_OSCILLATION_MM),
                            !.mode = mode]
        safety_result == compute_barrier(DefaultVerifier, st)
        ilk == IlkUpdate(interlock, safety_result)
        emergency == ilk.emergency_active
        mu == MotionUpdate(motion, DT)
        corrected_height == CorrectedHeight(safety_result, mu.target)
        dac_voltage == height_to_dac(height_cal, corrected_height)
        wpt_freq == optimal_frequency(wpt_cal, corrected_height)
    IN  /\ ticks < MaxTicks
        /\ ticks' = ticks + 1
        /\ velocity_filter' = vf
        /\ oscillation_detector' = od
        /\ state' = st
        /\ interlock' = ilk
        /\ Fed(safety_result)
        /\ IF emergency
           THEN /\ mode' = ModeEmergencyLanding
                /\ ret' = Ok("update", <<adc_value, power_ok, coil_temp>>, EmergencyOutput)
                /\ UNCHANGED <<motion, last_adc_value, last_dac_voltage>>
           ELSE /\ motion' = mu.gen
                /\ last_adc_value' = adc_value
                /\ last_dac_voltage' = dac_voltage
                /\ ret' = Ok("update", <<adc_value, power_ok, coil_temp>>,
                             <<dac_voltage, wpt_freq>>)
                /\ mode' = IF IsSome(motion.trajectory) /\ ~IsSome(mu.gen.trajectory)
                           THEN ModeLifted ELSE mode
        /\ recorded' = Append(recorded, height_mm)
        /\ UNCHANGED <<height_cal, wpt_cal, sensor, cmds>>

\* update() that advances the motion generator before it looks at the emergency
update_AdvancesInEmergency(adc_value, power_ok, coil_temp) ==
    IF AdcToHeightPanics(height_cal, adc_value)
    THEN \* nothing has been written yet
         /\ ticks < MaxTicks
         /\ ticks' = ticks + 1
         /\ ret' = Panic("update", <<adc_value, power_ok, coil_temp>>)
         /\ UNCHANGED <<height_cal, wpt_cal, motion, state, mode, interlock,
                        last_adc_value, last_dac_voltage, velocity_filter,
                        oscillation_detector, unsafe_run, safe_run, prev_emergency,
                        lockout_requested, sensor, recorded, cmds>>
    ELSE
    LET height_mm == adc_to_height(height_cal, adc_value)
        vf == VelocityFilterUpdate(velocity_filter, height_mm)
        od == OscillationUpdate(oscillation_detector, height_mm)
        oscillation == OscillationAmplitude(od)
        st == [state EXCEPT !.height_mm = height_mm,
                            !.velocity_mm_s = vf.velocity,
                            !.oscillation_amplitude_mm = oscillation,
                            !.electromagnet_temp_c = coil_temp,
                            !.power_supply_ok = power_ok,
                            !.stable = (10 * oscillation < 7 * MAX_OSCILLATION_MM),
                            !.mode = mode]
        safety_result == compute_barrier(DefaultVerifier, st)
        ilk == IlkUpdate(interlock, safety_result)
        emergency == ilk.emergency_active
        mu == MotionUpdate(motion, DT)
        corrected_height == CorrectedHeight(safety_result, mu.target)
        dac_voltage == height_to_dac(height_cal, corrected_height)
        wpt_freq == optimal_frequency(wpt_cal, corrected_height)
    IN  /\ ticks < MaxTicks
        /\ ticks' = ticks + 1
        /\ velocity_filter' = vf
        /\ oscillation_detector' = od
        /\ state' = st
        /\ interlock' = ilk
        /\ Fed(safety_result)
        /\ IF emergency
           THEN /\ mode' = ModeEmergencyLanding
                /\ ret' = Ok("update", <<adc_value, power_ok, coil_temp>>, EmergencyOutput)
                /\ motion' = mu.gen
                /\ UNCHANGED <<last_adc_value, last_dac_voltage>>
           ELSE IF HeightToDacPanics(height_cal, corrected_height)
           THEN /\ motion' = mu.gen
                /\ ret' = Panic("update", <<adc_value, power_ok, coil_temp>>)
                /\ UNCHANGED <<mode, last_adc_value, last_dac_voltage>>
           ELSE /\ motion' = mu.gen
                /\ last_adc_value' = adc_value
                /\ last_dac_voltage' = dac_voltage
                /\ ret' = Ok("update", <<adc_value, power_ok, coil_temp>>,
                             <<dac_voltage, wpt_freq>>)
                /\ UNCHANGED mode
        /\ recorded' = Append(recorded, height_mm)
        /\ UNCHANGED <<height_cal, wpt_cal, sensor, cmds>>

\* HeightController::update(adc_value, power_ok, coil_temp)
update(adc_value, power_ok, coil_temp) ==
    IF AdcToHeightPanics(height_cal, adc_value)
    THEN \* nothing has been written yet
         /\ ticks < MaxTicks
         /\ ticks' = ticks + 1
         /\ ret' = Panic("update", <<adc_value, power_ok, coil_temp>>)
         /\ UNCHANGED <<height_cal, wpt_cal, motion, state, mode, interlock,
                        last_adc_value, last_dac_voltage, velocity_filter,
                        oscillation_detector, unsafe_run, safe_run, prev_emergency,
                        lockout_requested, sensor, recorded, cmds>>
    ELSE
    LET height_mm == adc_to_height(height_cal, adc_value)
        vf == VelocityFilterUpdate(velocity_filter, height_mm)
        od == OscillationUpdate(oscillation_detector, height_mm)
        oscillation == OscillationAmplitude(od)
        st == [state EXCEPT !.height_mm = height_mm,
                            !.velocity_mm_s = vf.velocity,
                            !.oscillation_amplitude_mm = oscillation,
                            !.electromagnet_temp_c = coil_temp,
                            !.power_supply_ok = power_ok,
                            !.stable = (10 * oscillation < 7 * MAX_OSCILLATION_MM),
                            !.mode = mode]
        safety_result == compute_barrier(DefaultVerifier, st)
        ilk == IlkUpdate(interlock, safety_result)
        emergency == ilk.emergency_active
        mu == MotionUpdate(motion, DT)
        corrected_height == CorrectedHeight(safety_result, mu.target)
        dac_voltage == height_to_dac(height_cal, corrected_height)
        wpt_freq == optimal_frequency(wpt_cal, corrected_height)
    IN  /\ ticks < MaxTicks
        /\ ticks' = ticks + 1
        /\ velocity_filter' = vf
        /\ oscillation_detector' = od
        /\ state' = st
        /\ interlock' = ilk
        /\ Fed(safety_result)
        /\ IF emergency
           THEN /\ mode' = ModeEmergencyLanding
                /\ ret' = Ok("update", <<adc_value, power_ok, coil_temp>>, EmergencyOutput)
                /\ UNCHANGED <<motion, last_adc_value, last_dac_voltage>>
           ELSE IF HeightToDacPanics(height_cal, corrected_height)
           THEN /\ motion' = mu.gen
                /\ ret' = Panic("update", <<adc_value, power_ok, coil_temp>>)
                /\ UNCHANGED <<mode, last_adc_value, last_dac_voltage>>
           ELSE /\ motion' = mu.gen
                /\ last_adc_value' = adc_value
                /\ last_dac_voltage' = dac_voltage
                /\ ret' = Ok("update", <<adc_value, power_ok, coil_temp>>,
                             <<dac_voltage, wpt_freq>>)
                /\ UNCHANGED mode
        /\ recorded' = Append(recorded, height_mm)
        /\ UNCHANGED <<height_cal, wpt_cal, sensor, cmds>>

\* HeightController::set_calibration(height, wpt)
set_calibration(height, wpt) ==
    /\ cmds < MaxCmds
    /\ cmds' = cmds + 1
    /\ height_cal' = height
    /\ wpt_cal' = wpt
    /\ ret' = Ok("set_calibration", <<height, wpt>>, "unit")
    /\ NotFed
    /\ UNCHANGED <<motion, state, mode, interlock, last_adc_value, last_dac_voltage,
                   velocity_filter, oscillation_detector, sensor, recorded, ticks>>

\* what every command leaves alone, and the command budget
Command ==
    /\ cmds < MaxCmds
    /\ cmds' = cmds + 1
    /\ UNCHANGED <<height_cal, wpt_cal, state, last_adc_value, last_dac_voltage,
                   velocity_filter, oscillation_detector, sensor, recorded, ticks>>

\* a rejection that leaves the controller in Lifted mode
Rejected_ToLifted(op, args, e) ==
    /\ ret' = Err(op, args, e)
    /\ mode' = ModeLifted
    /\ UNCHANGED <<motion, interlock>>
    /\ NotFed

\* a command that returns before changing anything
Rejected(op, args, e) ==
    /\ ret' = Err(op, args, e)
    /\ UNCHANGED <<motion, mode, interlock>>
    /\ NotFed

\* start_charging that leaves a running animation in place
start_charging_KeepAnimation ==
    /\ Command
    /\ IF IlkIsEmergency(interlock)
       THEN Rejected("start_charging", <<>>, "EmergencyLanding")
       ELSE /\ motion' = [motion EXCEPT !.trajectory = Some(to_charging(state.height_mm))]
            /\ mode' = ModeCharging(HEIGHT_CHARGE_MM, 0)
            /\ ret' = Ok("start_charging", <<>>, "unit")
            /\ UNCHANGED interlock
            /\ NotFed

start_charging ==
    /\ Command
    /\ IF IlkIsEmergency(interlock)
       THEN Rejected("start_charging", <<>>, "EmergencyLanding")
       ELSE /\ motion' = start_trajectory(motion, to_charging(state.height_mm))
            /\ mode' = ModeCharging(HEIGHT_CHARGE_MM, 0)
            /\ ret' = Ok("start_charging", <<>>, "unit")
            /\ UNCHANGED interlock
            /\ NotFed

stop_charging ==
    /\ Command
    /\ IF IlkIsEmergency(interlock)
       THEN Rejected("stop_charging", <<>>, "EmergencyLanding")
       ELSE /\ motion' = start_trajectory(motion, to_float(state.height_mm))
            /\ mode' = ModeFloat(HEIGHT_FLOAT_MM)
            /\ ret' = Ok("stop_charging", <<>>, "unit")
            /\ UNCHANGED interlock
            /\ NotFed

\* set_height with the range check `<=`/`>=`: the bounds themselves rejected
set_height_ExclusiveBounds(target_mm, duration_ms) ==
    /\ Command
    /\ IF IlkIsEmergency(interlock)
       THEN Rejected("set_height", <<target_mm, duration_ms>>, "EmergencyLanding")
       ELSE IF target_mm <= HEIGHT_MIN_MM \/ target_mm >= HEIGHT_MAX_MM
       THEN Rejected("set_height", <<target_mm, duration_ms>>, "HeightOutOfRange")
       ELSE /\ motion' = start_trajectory(motion,
                             NewTrajectory(state.height_mm, target_mm,
                                           F32Quot(duration_ms, 1000)))
            /\ mode' = ModeFloat(target_mm)
            /\ ret' = Ok("set_height", <<target_mm, duration_ms>>, "unit")
            /\ UNCHANGED interlock
            /\ NotFed

\* set_height that reports a timed move as a transition between modes
set_height_Transitioning(target_mm, duration_ms) ==
    /\ Command
    /\ IF IlkIsEmergency(interlock)
       THEN Rejected("set_height", <<target_mm, duration_ms>>, "EmergencyLanding")
       ELSE IF F32Lt(target_mm, HEIGHT_MIN_MM) \/ F32Gt(target_mm, HEIGHT_MAX_MM)
       THEN Rejected("set_height", <<target_mm, duration_ms>>, "HeightOutOfRange")
       ELSE /\ motion' = start_trajectory(motion,
                             NewTrajectory(state.height_mm, target_mm,
                                           F32Quot(duration_ms, 1000)))
            /\ mode' = IF duration_ms > 0
                       THEN ModeTransitioning(mode.kind, "Float", 0)
                       ELSE ModeFloat(target_mm)
            /\ ret' = Ok("set_height", <<target_mm, duration_ms>>, "unit")
            /\ UNCHANGED interlock
            /\ NotFed

set_height(target_mm, duration_ms) ==
    /\ Command
    /\ IF IlkIsEmergency(interlock)
       THEN Rejected("set_height", <<target_mm, duration_ms>>, "EmergencyLanding")
       ELSE IF F32Lt(target_mm, HEIGHT_MIN_MM) \/ F32Gt(target_mm, HEIGHT_MAX_MM)
       THEN Rejected("set_height", <<target_mm, duration_ms>>, "HeightOutOfRange")
       ELSE /\ motion' = start_trajectory(motion,
                             NewTrajectory(state.height_mm, target_mm,
                                           F32Quot(duration_ms, 1000)))
            /\ mode' = ModeFloat(target_mm)
            /\ ret' = Ok("set_height", <<target_mm, duration_ms>>, "unit")
            /\ UNCHANGED interlock
            /\ NotFed

\* start_bobble without the check of the headroom around the center
start_bobble_NoHeadroom(amplitude_mm, frequency_hz) ==
    LET args == <<amplitude_mm, frequency_hz>>
        center == state.height_mm
    IN  /\ Command
        /\ IF IlkIsEmergency(interlock)
           THEN Rejected("start_bobble", args, "EmergencyLanding")
           ELSE IF amplitude_mm < Milli \/ amplitude_mm > MAX_BOBBLE_AMPLITUDE_MM
           THEN Rejected("start_bobble", args, "InvalidAmplitude")
           ELSE IF frequency_hz < MIN_BOBBLE_FREQ_HZ \/ frequency_hz > MAX_BOBBLE_FREQ_HZ
           THEN Rejected("start_bobble", args, "InvalidFrequency")
           ELSE /\ motion' = start_animation(motion,
                                 NewAnimation(center, amplitude_mm, frequency_hz))
                /\ mode' = ModeBobble(center, amplitude_mm, frequency_hz)
                /\ ret' = Ok("start_bobble", args, "unit")
                /\ UNCHANGED interlock
                /\ NotFed

start_bobble(amplitude_mm, frequency_hz) ==
    LET args == <<amplitude_mm, frequency_hz>>
        center == state.height_mm
    IN  /\ Command
        /\ IF IlkIsEmergency(interlock)
           THEN Rejected("start_bobble", args, "EmergencyLanding")
           ELSE IF F32Lt(amplitude_mm, Milli) \/ F32Gt(amplitude_mm, MAX_BOBBLE_AMPLITUDE_MM)
           THEN Rejected("start_bobble", args, "InvalidAmplitude")
           ELSE IF \/ F32Lt(frequency_hz, MIN_BOBBLE_FREQ_HZ)
                   \/ F32Gt(frequency_hz, MAX_BOBBLE_FREQ_HZ)
           THEN Rejected("start_bobble", args, "InvalidFrequency")
           ELSE IF \/ F32Lt(F32Minus(center, amplitude_mm), HEIGHT_MIN_MM)
                   \/ F32Gt(F32Plus(center, amplitude_mm), HEIGHT_MAX_MM)
           THEN Rejected("start_bobble", args, "HeightOutOfRange")
           ELSE /\ motion' = start_animation(motion,
                                 NewAnimation(center, amplitude_mm, frequency_hz))
                /\ mode' = ModeBobble(center, amplitude_mm, frequency_hz)
                /\ ret' = Ok("start_bobble", args, "unit")
                /\ UNCHANGED interlock
                /\ NotFed

stop_bobble ==
    /\ Command
    /\ motion' = MotionStop(motion, state.height_mm)
    /\ mode' = ModeFloat(state.height_mm)
    /\ ret' = Ok("stop_bobble", <<>>, "unit")
    /\ UNCHANGED interlock
    /\ NotFed

\* land with the emergency check of the other motion commands
land_RejectsEmergency ==
    /\ Command
    /\ IF IlkIsEmergency(interlock)
       THEN Rejected("land", <<>>, "EmergencyLanding")
       ELSE /\ motion' = start_trajectory(motion,
                             NewTrajectory(state.height_mm, HEIGHT_MIN_MM, 3 * SEC))
            /\ mode' = ModeLanding(state.height_mm, 5 * Milli)
            /\ ret' = Ok("land", <<>>, "unit")
            /\ UNCHANGED interlock
            /\ NotFed

land ==
    /\ Command
    /\ motion' = start_trajectory(motion,
                     NewTrajectory(state.height_mm, HEIGHT_MIN_MM, 3 * SEC))
    /\ mode' = ModeLanding(state.height_mm, 5 * Milli)
    /\ ret' = Ok("land", <<>>, "unit")
    /\ UNCHANGED interlock
    /\ NotFed

\* emergency_land that sets the mode and never calls trigger_lockout()
emergency_land_ModeOnly ==
    /\ Command
    /\ mode' = ModeEmergencyLanding
    /\ ret' = Ok("emergency_land", <<>>, "unit")
    /\ UNCHANGED <<motion, interlock>>
    /\ Tripped

emergency_land ==
    /\ Command
    /\ interlock' = IlkTriggerLockout(interlock)
    /\ mode' = ModeEmergencyLanding
    /\ ret' = Ok("emergency_land", <<>>, "unit")
    /\ UNCHANGED motion
    /\ Tripped

\* reset that resets the interlock and the mode but leaves the motion running
reset_KeepsMotion ==
    /\ Command
    /\ interlock' = IlkReset(interlock)
    /\ mode' = ModeFloat(HEIGHT_FLOAT_MM)
    /\ ret' = Ok("reset", <<>>, "unit")
    /\ UNCHANGED motion
    /\ Restarted

reset ==
    /\ Command
    /\ interlock' = IlkReset(interlock)
    /\ motion' = MotionStop(motion, state.height_mm)
    /\ mode' = ModeFloat(HEIGHT_FLOAT_MM)
    /\ ret' = Ok("reset", <<>>, "unit")
    /\ Restarted

on_orb_lifted ==
    /\ Command
    /\ mode' = ModeLifted
    /\ motion' = MotionStop(motion, 0)
    /\ ret' = Ok("on_orb_lifted", <<>>, "unit")
    /\ UNCHANGED interlock
    /\ NotFed

\* on_orb_placed that tests is_emergency() instead of is_locked_out()
on_orb_placed_ChecksEmergency ==
    /\ Command
    /\ IF ~IlkIsEmergency(interlock)
       THEN /\ mode' = ModeFloat(HEIGHT_FLOAT_MM)
            /\ motion' = start_trajectory(motion,
                             NewTrajectory(HEIGHT_MIN_MM, HEIGHT_FLOAT_MM, (3 * SEC) \div 2))
       ELSE UNCHANGED <<mode, motion>>
    /\ ret' = Ok("on_orb_placed", <<>>, "unit")
    /\ UNCHANGED interlock
    /\ NotFed

on_orb_placed ==
    /\ Command
    /\ IF ~IlkIsLockedOut(interlock)
       THEN /\ mode' = ModeFloat(HEIGHT_FLOAT_MM)
            /\ motion' = start_trajectory(motion,
                             NewTrajectory(HEIGHT_MIN_MM, HEIGHT_FLOAT_MM, (3 * SEC) \div 2))
       ELSE UNCHANGED <<mode, motion>>
    /\ ret' = Ok("on_orb_placed", <<>>, "unit")
    /\ UNCHANGED interlock
    /\ NotFed

set_charge_power(power_w) ==
    /\ Command
    /\ mode' = IF mode.kind = "Charging"
               THEN [mode EXCEPT !.charge_rate_w = power_w]
               ELSE mode
    /\ ret' = Ok("set_charge_power", <<power_w>>, "unit")
    /\ UNCHANGED <<motion, interlock>>
    /\ NotFed

Tick == \E in \in TickInputs : update(sensor, in[1], in[2])
SetHeight == \E h \in TargetHeights, d \in DurationsMs : set_height(h, d)
StartBobble == \E a \in Amplitudes, f \in Frequencies : start_bobble(a, f)
SetChargePower == \E w \in ChargePowers : set_charge_power(w)

Next ==
    \/ Tick
    \/ start_charging
    \/ stop_charging
    \/ SetHeight
    \/ StartBobble
    \/ stop_bobble
    \/ land
    \/ emergency_land
    \/ reset
    \/ on_orb_lifted
    \/ on_orb_placed
    \/ SetChargePower

Spec == Init /\ [][Next]_vars

---------------------------------------------------------------------------
(* A SafetyInterlockManager on its own, fed SafetyResults directly. *)

InitInterlock == Init

\* SafetyInterlockManager::update(result)
IlkUpdateCall(result) ==
    /\ result.safe => interlock.safe_cycles < MaxSafeCycles
    /\ ~result.safe => interlock.violation_cycles < MaxViolationCycles
    /\ interlock' = IlkUpdate(interlock, result)
    /\ ret' = Ok("update", <<result.safe>>, interlock'.emergency_active)
    /\ Fed(result)
    /\ UNCHANGED ctlVars

\* SafetyInterlockManager::trigger_lockout()
IlkTriggerLockoutCall ==
    /\ interlock' = IlkTriggerLockout(interlock)
    /\ ret' = Ok("trigger_lockout", <<>>, "unit")
    /\ Tripped
    /\ UNCHANGED ctlVars

\* SafetyInterlockManager::reset()
IlkResetCall ==
    /\ interlock' = IlkReset(interlock)
    /\ ret' = Ok("reset", <<>>, "unit")
    /\ Restarted
    /\ UNCHANGED ctlVars

IlkFeed == \E result \in SafetyResults : IlkUpdateCall(result)

NextInterlock ==
    \/ IlkFeed
    \/ IlkTriggerLockoutCall
    \/ IlkResetCall

SpecInterlock == InitInterlock /\ [][NextInterlock]_vars

---------------------------------------------------------------------------
(* The validation of start_bobble, over wider inputs and three heights. *)

\* ADC readings that the default calibration maps to 10, 15 and 20 mm
BobbleAdcInputs == {3200, 2600, 2000}
\* amplitudes around the bounds 1 and 8 mm and around the headroom of 5 mm
\* left at 10 and 20 mm
BobbleAmplitudes ==
    {Milli - 1, Milli, 3 * Milli, 5 * Milli, 5 * Milli + 1, 8 * Milli, 8 * Milli + 1,
     15 * Milli}
\* frequencies (mHz) around the bounds 0.1 and 2 Hz
BobbleFrequencies == {99, 100, 500, 2 * Milli, 2 * Milli + 1, 5 * Milli}

\* HeightController::new(), with one of the three readings
InitBobble ==
    /\ height_cal = DefaultCalibration
    /\ wpt_cal = DefaultWptCalibration
    /\ motion = NewMotion
    /\ state = DefaultLevitationState
    /\ mode = ModeLifted
    /\ interlock = NewInterlock
    /\ last_adc_value = 0
    /\ last_dac_voltage = (3 * Milli) \div 2
    /\ velocity_filter = NewVelocityFilter
    /\ oscillation_detector = NewOscillationDetector
    /\ ret = Ok("new", <<>>, "unit")
    /\ unsafe_run = 0
    /\ safe_run = 0
    /\ prev_emergency = FALSE
    /\ lockout_requested = FALSE
    /\ sensor \in BobbleAdcInputs
    /\ recorded = <<>>
    /\ ticks = 0
    /\ cmds = 0

\* every amplitude with a valid frequency, every frequency with a valid
\* amplitude, and both out of bounds
BobbleInputs ==
    {<<a, 500>> : a \in BobbleAmplitudes}
        \cup {<<3 * Milli, f>> : f \in BobbleFrequencies}
        \cup {<<15 * Milli, 5 * Milli>>}

StartBobbleAny == \E in \in BobbleInputs : start_bobble(in[1], in[2])

\* a tick with the supply up and the coil at 50 C
TickNominal == update(sensor, TRUE, 50 * Milli)

NextBobble ==
    \/ TickNominal
    \/ StartBobbleAny
    \/ on_orb_placed
    \/ emergency_land

SpecBobble == InitBobble /\ [][NextBobble]_vars

---------------------------------------------------------------------------
(* A HeightMotionGenerator on its own, driven through its four methods. *)

\* a 1 s rise from 5 to 25 mm, and a descent whose duration of 0 is floored
\* to 0.1 s
GenTrajectories ==
    {NewTrajectory(5 * Milli, 25 * Milli, SEC),
     NewTrajectory(20 * Milli, 5 * Milli, 0)}
\* an endless animation around 15 mm, and BobbleAnimation::nod(15): 4 mm at
\* 1.2 Hz for 2 s
GenAnimations ==
    {NewAnimation(15 * Milli, 3 * Milli, 500),
     [NewAnimation(15 * Milli, 4 * Milli, 1200) EXCEPT !.duration = Some(2 * SEC)]}
\* time steps of update(dt): 10 ms, 50 ms, 0.5 s
GenDts == {DT, F32Quot(1, 20), SEC \div 2}
\* heights passed to stop()
GenStopHeights == {0, 15 * Milli}

\* what the generator's methods leave alone
GenFrame ==
    /\ UNCHANGED <<height_cal, wpt_cal, state, mode, interlock, last_adc_value,
                   last_dac_voltage, velocity_filter, oscillation_detector, sensor, recorded>>
    /\ UNCHANGED <<unsafe_run, safe_run, prev_emergency, lockout_requested>>

\* HeightMotionGenerator::start_trajectory(traj)
GenStartTrajectory(traj) ==
    /\ cmds < MaxCmds
    /\ cmds' = cmds + 1
    /\ motion' = start_trajectory(motion, traj)
    /\ ret' = Ok("start_trajectory", <<traj>>, "unit")
    /\ UNCHANGED ticks
    /\ GenFrame

\* HeightMotionGenerator::start_animation(anim)
GenStartAnimation(anim) ==
    /\ cmds < MaxCmds
    /\ cmds' = cmds + 1
    /\ motion' = start_animation(motion, anim)
    /\ ret' = Ok("start_animation", <<anim>>, "unit")
    /\ UNCHANGED ticks
    /\ GenFrame

\* HeightMotionGenerator::stop(current_height)
GenStop(current_height) ==
    /\ cmds < MaxCmds
    /\ cmds' = cmds + 1
    /\ motion' = MotionStop(motion, current_height)
    /\ ret' = Ok("stop", <<current_height>>, "unit")
    /\ UNCHANGED ticks
    /\ GenFrame

\* HeightMotionGenerator::update(dt), returning (target_height, target_velocity)
GenUpdate(dt) ==
    LET mu == MotionUpdate(motion, dt)
    IN  /\ ticks < MaxTicks
        /\ ticks' = ticks + 1
        /\ motion' = mu.gen
        /\ ret' = Ok("update", <<dt>>, <<mu.target, mu.velocity>>)
        /\ UNCHANGED cmds
        /\ GenFrame

GenStartTrajectoryAny == \E traj \in GenTrajectories : GenStartTrajectory(traj)
GenStartAnimationAny == \E anim \in GenAnimations : GenStartAnimation(anim)
GenStopAny == \E h \in GenStopHeights : GenStop(h)
GenUpdateAny == \E dt \in GenDts : GenUpdate(dt)

NextMotion ==
    \/ GenStartTrajectoryAny
    \/ GenStartAnimationAny
    \/ GenStopAny
    \/ GenUpdateAny

SpecMotion == Init /\ [][NextMotion]_vars

---------------------------------------------------------------------------
(* The controller over a run long enough for a trajectory to complete: the   *)
(* shortest trajectory lasts 0.1 s, that is 11 ticks of 0.01 s in f32.       *)

\* the number of ticks of a long run
LongRunTicks == 12

\* the controller after construction, with a tick budget of LongRunTicks
InitLongRun ==
    /\ height_cal = DefaultCalibration
    /\ wpt_cal = DefaultWptCalibration
    /\ motion = NewMotion
    /\ state = DefaultLevitationState
    /\ mode = ModeLifted
    /\ interlock = NewInterlock
    /\ last_adc_value = 0
    /\ last_dac_voltage = (3 * Milli) \div 2
    /\ velocity_filter = NewVelocityFilter
    /\ oscillation_detector = NewOscillationDetector
    /\ ret = Ok("new", <<>>, "unit")
    /\ unsafe_run = 0
    /\ safe_run = 0
    /\ prev_emergency = FALSE
    /\ lockout_requested = FALSE
    /\ sensor \in AdcInputs
    /\ recorded = <<>>
    /\ ticks = MaxTicks - LongRunTicks
    /\ cmds = 0

\* set_height with duration_ms = 0: a trajectory of the minimum 0.1 s
SetHeightQuick == \E h \in TargetHeights : set_height(h, 0)

NextLongRun ==
    \/ Tick
    \/ SetHeightQuick
    \/ land

SpecLongRun == InitLongRun /\ [][NextLongRun]_vars

---------------------------------------------------------------------------
(* The controller with calibration tables loaded between ticks. *)

\* the points of the default table with point i replaced by p
WithPoint(i, p) == [DefaultCalibration.points EXCEPT ![i] = p]

\* Slices of calibration points handed to from_points: the default five; a
\* valid table with other actuator values at its ends; six points, of which
\* the first five are kept; two points only; the third height set to 5 mm as
\* in test_calibration_validation; the second actuator value raised to the
\* first
CalibrationTables ==
    { DefaultCalibration.points,
      [WithPoint(1, CalibrationPoint(5 * Milli, 3800, 2400))
          EXCEPT ![5] = CalibrationPoint(25 * Milli, 1400, 600)],
      Append(DefaultCalibration.points, CalibrationPoint(30 * Milli, 800, 250)),
      SubSeq(DefaultCalibration.points, 1, 2),
      WithPoint(3, CalibrationPoint(5 * Milli, 2600, (3 * Milli) \div 2)),
      WithPoint(2, CalibrationPoint(10 * Milli, 3200, (5 * Milli) \div 2)) }

SetCalibration ==
    \E points \in CalibrationTables :
        set_calibration(from_points(points), DefaultWptCalibration)

NextCalibration == TickNominal \/ SetCalibration

SpecCalibration == Init /\ [][NextCalibration]_vars

---------------------------------------------------------------------------
(* compute_barrier on its own, applied to a grid of LevitationStates. *)

\* heights: NaN, below the floor of 3 mm by 5 mm (h = -1), at the floor, mid
\* range, at the ceiling of 30 mm, above it by 10 mm (h = -1) and by 15 mm
VerifierHeights ==
    {NaN, -2 * Milli, 3 * Milli, 15 * Milli, 30 * Milli, 40 * Milli, 45 * Milli}
\* velocities: NaN, at rest, descending at the limit and at twice the limit
VerifierVelocities == {NaN, 0, -15 * Milli, -30 * Milli}
\* oscillation amplitudes: NaN, small, at the limit, twice the limit
VerifierOscillations == {NaN, Milli, 5 * Milli, 10 * Milli}
\* electromagnet temperatures: NaN, cool, the warning and maximum thresholds,
\* between them and above
VerifierTemps == {NaN, 50 * Milli, 65 * Milli, 70 * Milli, 80 * Milli, 85 * Milli}
\* WPT coil temperatures
VerifierWptTemps == {NaN, 45 * Milli}

VerifierStates ==
    {[SafeState EXCEPT !.height_mm = h, !.velocity_mm_s = vel,
                       !.oscillation_amplitude_mm = osc,
                       !.electromagnet_temp_c = temp, !.wpt_coil_temp_c = wpt,
                       !.power_supply_ok = power] :
        h \in VerifierHeights, vel \in VerifierVelocities,
        osc \in VerifierOscillations, temp \in VerifierTemps,
        wpt \in VerifierWptTemps, power \in BOOLEAN}

\* a verifier with the default thresholds and a LevitationState to judge
InitVerifier ==
    /\ height_cal = DefaultCalibration
    /\ wpt_cal = DefaultWptCalibration
    /\ motion = NewMotion
    /\ state \in VerifierStates
    /\ mode = ModeLifted
    /\ interlock = NewInterlock
    /\ last_adc_value = 0
    /\ last_dac_voltage = (3 * Milli) \div 2
    /\ velocity_filter = NewVelocityFilter
    /\ oscillation_detector = NewOscillationDetector
    /\ ret = Ok("new", <<>>, "unit")
    /\ unsafe_run = 0
    /\ safe_run = 0
    /\ prev_emergency = FALSE
    /\ lockout_requested = FALSE
    /\ sensor \in AdcInputs
    /\ recorded = <<>>
    /\ ticks = 0
    /\ cmds = 0

\* LevitationSafetyVerifier::compute_barrier(&state)
ComputeBarrierCall ==
    /\ ret.op = "new"
    /\ ret' = Ok("compute_barrier", <<>>, compute_barrier(DefaultVerifier, state))
    /\ UNCHANGED <<height_cal, wpt_cal, motion, state, mode, interlock,
                   last_adc_value, last_dac_voltage, velocity_filter,
                   oscillation_detector, unsafe_run, safe_run, prev_emergency,
                   lockout_requested, sensor, recorded, ticks, cmds>>

NextVerifier == ComputeBarrierCall

SpecVerifier == InitVerifier /\ [][NextVerifier]_vars

---------------------------------------------------------------------------
(* adc_to_height and height_to_dac on their own, applied to calibration      *)
(* tables that is_valid() accepts.                                           *)

\* Candidate tables: the default; one that spans 3..30 mm, beyond the
\* controller's 5..25 mm; three points only; one whose ADC values are not in
\* order, which is_valid does not look at; one whose third height is NaN
TableCandidates ==
    { DefaultCalibration,
      from_points(<< CalibrationPoint(3 * Milli, 4000, 2800),
                     CalibrationPoint(10 * Milli, 3200, 2 * Milli),
                     CalibrationPoint(15 * Milli, 2600, (3 * Milli) \div 2),
                     CalibrationPoint(20 * Milli, 2000, Milli),
                     CalibrationPoint(30 * Milli, 1000, 200) >>),
      from_points(<< CalibrationPoint(5 * Milli, 3800, (5 * Milli) \div 2),
                     CalibrationPoint(15 * Milli, 2600, (3 * Milli) \div 2),
                     CalibrationPoint(25 * Milli, 1400, Milli \div 2) >>),
      from_points([WithPoint(2, CalibrationPoint(10 * Milli, 3000, 2 * Milli))
                      EXCEPT ![3] = CalibrationPoint(15 * Milli, 3500, (3 * Milli) \div 2)]),
      from_points(WithPoint(3, CalibrationPoint(NaN, 2600, (3 * Milli) \div 2))),
      from_points(WithPoint(3, CalibrationPoint(5 * Milli, 2600, (3 * Milli) \div 2))) }

ValidTables == {cal \in TableCandidates : is_valid(cal)}

\* ADC readings (u16, 12 bits used): the ends of the scale, the table's
\* points and readings between them
AdcSamples ==
    {0, 800, 1000, 1400, 1401, 2000, 2300, 2600, 2999, 3000, 3200, 3500,
     3800, 3801, 4000, 4095}

\* heights handed to height_to_dac, in um
HeightSamples ==
    {2 * Milli, 3 * Milli, 4 * Milli, 5 * Milli, 7500, 10 * Milli, 12500,
     15 * Milli, 20 * Milli, 25 * Milli, 27 * Milli, 30 * Milli, 35 * Milli}

\* a controller holding one of the valid tables
InitTables ==
    /\ height_cal \in ValidTables
    /\ wpt_cal = DefaultWptCalibration
    /\ motion = NewMotion
    /\ state = DefaultLevitationState
    /\ mode = ModeLifted
    /\ interlock = NewInterlock
    /\ last_adc_value = 0
    /\ last_dac_voltage = (3 * Milli) \div 2
    /\ velocity_filter = NewVelocityFilter
    /\ oscillation_detector = NewOscillationDetector
    /\ ret = Ok("new", <<>>, "unit")
    /\ unsafe_run = 0
    /\ safe_run = 0
    /\ prev_emergency = FALSE
    /\ lockout_requested = FALSE
    /\ sensor \in AdcInputs
    /\ recorded = <<>>
    /\ ticks = 0
    /\ cmds = 0

\* what a conversion leaves alone: everything but its result
TableFrame ==
    UNCHANGED <<height_cal, wpt_cal, motion, state, mode, interlock, last_adc_value,
                last_dac_voltage, velocity_filter, oscillation_detector, unsafe_run,
                safe_run, prev_emergency, lockout_requested, sensor, recorded, ticks, cmds>>

\* CalibrationData::adc_to_height(adc_value)
AdcToHeightCall ==
    \E adc_value \in AdcSamples :
        /\ ret' = Ok("adc_to_height", <<adc_value>>, adc_to_height(height_cal, adc_value))
        /\ TableFrame

\* CalibrationData::height_to_dac(height_mm)
HeightToDacCall ==
    \E height_mm \in HeightSamples :
        /\ ret' = Ok("height_to_dac", <<height_mm>>, height_to_dac(height_cal, height_mm))
        /\ TableFrame

NextTables == AdcToHeightCall \/ HeightToDacCall

SpecTables == InitTables /\ [][NextTables]_vars

---------------------------------------------------------------------------
(* The controller under the landing, placement and charging commands, with   *)
(* a bobble to supersede and both ways into emergency: five failed ticks and *)
(* emergency_land.                                                           *)

\* start_bobble(3.0, 0.5), as in test_bobble_validation
StartBobbleNominal == start_bobble(3 * Milli, 500)

NextCommands ==
    \/ Tick
    \/ StartBobbleNominal
    \/ start_charging
    \/ land
    \/ on_orb_placed
    \/ emergency_land

SpecCommands == Init /\ [][NextCommands]_vars

---------------------------------------------------------------------------
(* The controller with its query methods called between ticks and commands.  *)

\* what a method taking &self leaves alone: every field of the controller
QueryFrame ==
    /\ UNCHANGED <<height_cal, wpt_cal, motion, state, mode, interlock, last_adc_value,
                   last_dac_voltage, velocity_filter, oscillation_detector, sensor, recorded,
                   ticks, cmds>>
    /\ NotFed

\* HeightController::state()
query_state ==
    /\ ret' = Ok("state", <<>>, state)
    /\ QueryFrame

\* HeightController::mode()
query_mode ==
    /\ ret' = Ok("mode", <<>>, mode)
    /\ QueryFrame

\* a safety_status() that feeds its result to the interlock, as update() does
safety_status_FeedsInterlock ==
    /\ ret' = Ok("safety_status", <<>>, compute_barrier(DefaultVerifier, state))
    /\ interlock' = IlkUpdate(interlock, compute_barrier(DefaultVerifier, state))
    /\ UNCHANGED <<height_cal, wpt_cal, motion, state, mode, last_adc_value,
                   last_dac_voltage, velocity_filter, oscillation_detector, sensor, recorded,
                   ticks, cmds>>
    /\ NotFed

\* HeightController::safety_status(): the barrier of the stored state
safety_status ==
    /\ ret' = Ok("safety_status", <<>>, compute_barrier(DefaultVerifier, state))
    /\ QueryFrame

\* HeightController::is_emergency()
is_emergency ==
    /\ ret' = Ok("is_emergency", <<>>, IlkIsEmergency(interlock))
    /\ QueryFrame

NextQueries ==
    \/ Tick
    \/ StartBobbleNominal
    \/ emergency_land
    \/ query_state
    \/ query_mode
    \/ safety_status
    \/ is_emergency

SpecQueries == Init /\ [][NextQueries]_vars

---------------------------------------------------------------------------
(* HeightTrajectory on its own: trajectories built by the constructor and    *)
(* sampled at chosen times.                                                  *)

\* start and target heights
SampleHeights == {5 * Milli, 20 * Milli, 25 * Milli}
\* durations handed to the constructor: NaN, negative, zero, below, at and
\* above the floor of 0.1 s
SampleDurations == {NaN, -SEC, 0, SEC \div 20, F32Quot(1, 10), SEC, 2 * SEC}
\* sampling times: negative, zero, the least positive time of the model,
\* inside, at and beyond the durations
SampleTimes ==
    {-SEC, 0, 1, SEC \div 20, F32Quot(1, 10), SEC \div 2, SEC, 2 * SEC, 3 * SEC}

\* HeightTrajectory::new(start, target, duration_s), held by a generator
InitSample ==
    /\ ret \in {Ok("new", <<s, g, d>>, NewTrajectory(s, g, d)) :
                   s \in SampleHeights, g \in SampleHeights, d \in SampleDurations}
    /\ motion = [NewMotion EXCEPT !.trajectory = Some(ret.val)]
    /\ height_cal = DefaultCalibration
    /\ wpt_cal = DefaultWptCalibration
    /\ state = DefaultLevitationState
    /\ mode = ModeLifted
    /\ interlock = NewInterlock
    /\ last_adc_value = 0
    /\ last_dac_voltage = (3 * Milli) \div 2
    /\ velocity_filter = NewVelocityFilter
    /\ oscillation_detector = NewOscillationDetector
    /\ unsafe_run = 0
    /\ safe_run = 0
    /\ prev_emergency = FALSE
    /\ lockout_requested = FALSE
    /\ sensor \in AdcInputs
    /\ recorded = <<>>
    /\ ticks = 0
    /\ cmds = 0

\* HeightTrajectory::sample(t)
SampleCall ==
    \E t \in SampleTimes :
        /\ ret' = Ok("sample", <<t>>, TrajSample(Unwrap(motion.trajectory), t))
        /\ TableFrame

\* HeightTrajectory::sample_velocity(t)
SampleVelocityCall ==
    \E t \in SampleTimes :
        /\ ret' = Ok("sample_velocity", <<t>>,
                     TrajSampleVelocity(Unwrap(motion.trajectory), t))
        /\ TableFrame

NextSample == SampleCall \/ SampleVelocityCall

SpecSample == InitSample /\ [][NextSample]_vars

---------------------------------------------------------------------------
(* The controller's motion generator under every command that can supersede  *)
(* an animation, and, as code inside the levitation module and the tests of  *)
(* trajectory.rs drive a generator, under direct calls that start a bounded  *)
(* animation and advance it in steps of 0.5 s.                               *)

\* BobbleAnimation::nod(15.0): 4 mm at 1.2 Hz for 2 s
Nod == [NewAnimation(15 * Milli, 4 * Milli, 1200) EXCEPT !.duration = Some(2 * SEC)]

GenStartNod == GenStartAnimation(Nod)

GenUpdateHalf == GenUpdate(SEC \div 2)

\* set_height(25.0, 200)
SetHeightMax == set_height(HEIGHT_MAX_MM, 200)

NextAnimation ==
    \/ TickNominal
    \/ StartBobbleNominal
    \/ SetHeightMax
    \/ start_charging
    \/ stop_charging
    \/ land
    \/ stop_bobble
    \/ reset
    \/ on_orb_lifted
    \/ on_orb_placed
    \/ GenStartNod
    \/ GenUpdateHalf

SpecAnimation == Init /\ [][NextAnimation]_vars

---------------------------------------------------------------------------
(* The controller under ticks with a hot coil: a barrier that is unsafe or   *)
(* near its bound for a reason other than the supply.                        *)

\* (power_ok, coil_temp) of a tick: nominal, supply failure, coil between the
\* warning and the maximum threshold, coil above the maximum, no reading
CorrectionInputs ==
    TickInputs \cup {<<TRUE, 75 * Milli>>, <<TRUE, 85 * Milli>>, <<TRUE, NaN>>}

TickCorrection == \E in \in CorrectionInputs : update(sensor, in[1], in[2])

NextCorrection ==
    \/ TickCorrection
    \/ StartBobbleNominal
    \/ on_orb_lifted

SpecCorrection == Init /\ [][NextCorrection]_vars

---------------------------------------------------------------------------
(* The OscillationDetector of a new controller, given heights one by one and *)
(* asked for its amplitude, over more calls than its buffer has slots.       *)

\* update() is called on the detector at most this often in a run
MaxSamples == 34
\* at most this many of the heights given are off the resting height
MaxSwings == 2

DetectorRest == 15 * Milli
DetectorHeights == {DetectorRest, 14 * Milli, 16 * Milli}

Swings(heights) ==
    Cardinality({i \in DOMAIN heights : heights[i] # DetectorRest})

DetectorFrame ==
    UNCHANGED <<height_cal, wpt_cal, motion, state, mode, interlock, last_adc_value,
                last_dac_voltage, velocity_filter, unsafe_run, safe_run,
                prev_emergency, lockout_requested, sensor, ticks, cmds>>

\* OscillationDetector::update(height)
DetectorUpdate ==
    \E height \in DetectorHeights :
        /\ Len(recorded) < MaxSamples
        /\ Swings(Append(recorded, height)) <= MaxSwings
        /\ oscillation_detector' = OscillationUpdate(oscillation_detector, height)
        /\ recorded' = Append(recorded, height)
        /\ ret' = Ok("detector_update", <<height>>, "unit")
        /\ DetectorFrame

\* OscillationDetector::amplitude()
DetectorAmplitude ==
    /\ ret' = Ok("amplitude", <<>>, OscillationAmplitude(oscillation_detector))
    /\ UNCHANGED <<oscillation_detector, recorded>>
    /\ DetectorFrame

NextDetector == DetectorUpdate \/ DetectorAmplitude

SpecDetector == Init /\ [][NextDetector]_vars

---------------------------------------------------------------------------
(* The controller ticked with readings over the whole ADC range, after any   *)
(* table set_calibration() accepts, the table of no points included. A panic *)
(* ends the run.                                                             *)

\* ADC readings (u16): both ends of the range, 15 mm, above the first point
ReturnAdcInputs == {0, 2600, 3900, 65535}

\* the default table, its first point alone, no point at all
ReturnTables ==
    {DefaultCalibration.points, SubSeq(DefaultCalibration.points, 1, 1), <<>>}

\* HeightController::new(), with one of the readings
InitReturns ==
    /\ height_cal = DefaultCalibration
    /\ wpt_cal = DefaultWptCalibration
    /\ motion = NewMotion
    /\ state = DefaultLevitationState
    /\ mode = ModeLifted
    /\ interlock = NewInterlock
    /\ last_adc_value = 0
    /\ last_dac_voltage = (3 * Milli) \div 2
    /\ velocity_filter = NewVelocityFilter
    /\ oscillation_detector = NewOscillationDetector
    /\ ret = Ok("new", <<>>, "unit")
    /\ unsafe_run = 0
    /\ safe_run = 0
    /\ prev_emergency = FALSE
    /\ lockout_requested = FALSE
    /\ sensor \in ReturnAdcInputs
    /\ recorded = <<>>
    /\ ticks = 0
    /\ cmds = 0

TickReturns ==
    /\ ~Panicked
    /\ \E in \in CorrectionInputs : update(sensor, in[1], in[2])

SetCalibrationReturns ==
    /\ ~Panicked
    /\ \E points \in ReturnTables :
          set_calibration(from_points(points), DefaultWptCalibration)

EmergencyLandReturns == ~Panicked /\ emergency_land

NextReturns ==
    \/ TickReturns
    \/ SetCalibrationReturns
    \/ EmergencyLandReturns

SpecReturns == InitReturns /\ [][NextReturns]_vars

---------------------------------------------------------------------------
(* The controller over a run long enough for an emergency to be declared     *)
(* and cleared again: 5 unsafe ticks, then 101 safe ones.                    *)

\* the number of ticks of a run through an emergency and out of it
ClearTicks == 107

\* HeightController::new(), with one of the readings `adcs` and a budget of
\* `budget` ticks
InitWithBudget(adcs, budget) ==
    /\ height_cal = DefaultCalibration
    /\ wpt_cal = DefaultWptCalibration
    /\ motion = NewMotion
    /\ state = DefaultLevitationState
    /\ mode = ModeLifted
    /\ interlock = NewInterlock
    /\ last_adc_value = 0
    /\ last_dac_voltage = (3 * Milli) \div 2
    /\ velocity_filter = NewVelocityFilter
    /\ oscillation_detector = NewOscillationDetector
    /\ ret = Ok("new", <<>>, "unit")
    /\ unsafe_run = 0
    /\ safe_run = 0
    /\ prev_emergency = FALSE
    /\ lockout_requested = FALSE
    /\ sensor \in adcs
    /\ recorded = <<>>
    /\ ticks = MaxTicks - budget
    /\ cmds = 0

InitClear == InitWithBudget(AdcInputs, ClearTicks)

NextClear == Tick

SpecClear == InitClear /\ [][NextClear]_vars

---------------------------------------------------------------------------
(* The controller with the default tables under every kind of target: the    *)
(* ends of the height range, a target of NaN (which the range checks of      *)
(* set_height and start_bobble let through), a baseline of 0 after the orb   *)
(* was lifted, and ticks with a hot coil or no coil reading.                 *)

OutputTargets == {HEIGHT_MAX_MM, NaN}
OutputBobbles == {<<8 * Milli, 2 * Milli>>, <<NaN, NaN>>}
\* (power_ok, coil_temp) of a tick: nominal, coil above the maximum
OutputInputs == {<<TRUE, 50 * Milli>>, <<TRUE, 85 * Milli>>}

TickOutput == \E in \in OutputInputs : update(sensor, in[1], in[2])
SetHeightOutput == \E h \in OutputTargets : set_height(h, 0)
StartBobbleOutput == \E b \in OutputBobbles : start_bobble(b[1], b[2])

NextOutputs ==
    \/ TickOutput
    \/ SetHeightOutput
    \/ StartBobbleOutput
    \/ on_orb_lifted

SpecOutputs == Init /\ [][NextOutputs]_vars

---------------------------------------------------------------------------
(* The controller ticked with a reading chosen anew on every tick, over the  *)
(* whole range of the ADC.                                                   *)

\* ADC readings (u16): both ends of the range, the ends of the default table
\* and its middle
AnyAdcInputs == {0, 1400, 2600, 3800, 65535}

TickAnyReading == \E adc \in AnyAdcInputs : update(adc, TRUE, 50 * Milli)

NextReadings == TickAnyReading

SpecReadings == Init /\ [][NextReadings]_vars

---------------------------------------------------------------------------
(* The controller with a bobble started after its first tick and a measured  *)
(* height that follows the bobble: the reading of every later tick is that   *)
(* of the animation's height at the time of the tick.                        *)

\* the number of ticks of a run with a bobble: one before it, and more than
\* the 32 the oscillation detector holds
BobbleTicks == 44

\* amplitudes the controller accepts at a center of 15 mm: the smallest, one
\* inside the range, the largest
RunAmplitudes == {1 * Milli, 3 * Milli, MAX_BOBBLE_AMPLITUDE_MM}

\* the reading of the default table for a height within its range
\* (120 counts per mm, 3800 at 5 mm)
HeightToReading(height_mm) == 3800 - ((height_mm - 5 * Milli) * 120) \div Milli

\* the reading at the next tick: the bobble's height at the time since its
\* start, the second tick being time 0; the resting reading without a bobble
FollowReading ==
    IF IsSome(motion.animation)
    THEN LET anim == Unwrap(motion.animation)
             t == (Len(recorded) - 1) * (SEC \div CONTROL_RATE_HZ)
         IN  HeightToReading(AnimSample([anim EXCEPT !.elapsed = 0], t))
    ELSE sensor

InitBobbleRun == InitWithBudget(AdcInputs, BobbleTicks)

TickFollow == update(FollowReading, TRUE, 50 * Milli)

\* start_bobble at the maximum frequency, 2 Hz, once, after the first tick
StartBobbleRun ==
    /\ Len(recorded) = 1
    /\ ~IsSome(motion.animation)
    /\ \E amplitude \in RunAmplitudes : start_bobble(amplitude, MAX_BOBBLE_FREQ_HZ)

NextBobbleRun ==
    \/ TickFollow
    \/ StartBobbleRun

SpecBobbleRun == InitBobbleRun /\ [][NextBobbleRun]_vars

---------------------------------------------------------------------------
(* A new controller ticked with one and the same reading, the supply on and  *)
(* the coil below the warning threshold, for longer than the oscillation     *)
(* detector takes to fill.                                                   *)

\* the number of ticks of a run from start-up
StartupTicks == 36

\* coil temperatures below WARN_COIL_TEMP_C = 65 C
CoolTemps == {-10 * Milli, 50 * Milli, WARN_COIL_TEMP_C - 1}

InitStartup == InitWithBudget(AnyAdcInputs, StartupTicks)

TickCool == \E temp \in CoolTemps : update(sensor, TRUE, temp)

NextStartup == TickCool

SpecStartup == InitStartup /\ [][NextStartup]_vars

---------------------------------------------------------------------------
(* Every command of the controller over a short run of ticks: the rejected   *)
(* commands and what they leave behind.                                      *)

\* the number of ticks between the commands
RejectionTicks == 3

InitRejections == InitWithBudget(AdcInputs, RejectionTicks)

NextRejections ==
    \/ Tick
    \/ start_charging
    \/ stop_charging
    \/ SetHeight
    \/ StartBobble
    \/ stop_bobble
    \/ land
    \/ emergency_land
    \/ reset
    \/ on_orb_lifted
    \/ on_orb_placed
    \/ SetChargePower

SpecRejections == InitRejections /\ [][NextRejections]_vars

---------------------------------------------------------------------------
(* Properties of the SafetyInterlockManager, checked under SpecInterlock. *)

\* C1: from an inactive emergency, update() returns true and is_emergency()
\* becomes true exactly when the result fed is the 5th (or a later) unsafe one
\* in a row, so 1 to 4 consecutive unsafe results never declare; update()
\* returns is_emergency(); a safe result puts the count of consecutive
\* violations back to zero.
C1_FifthViolationDeclares ==
    /\ (ret.op = "update" /\ ~prev_emergency) =>
           /\ ret.val = IlkIsEmergency(interlock)
           /\ IlkIsEmergency(interlock) <=> (unsafe_run >= 5)
    /\ (ret.op = "update" /\ ret.args[1]) => interlock.violation_cycles = 0
    /\ interlock.violation_cycles = unsafe_run

\* the 5th consecutive unsafe result has just declared the emergency
C1_Witness ==
    /\ ret.op = "update"
    /\ ~prev_emergency
    /\ unsafe_run = 5
    /\ ret.val = TRUE
    /\ IlkIsEmergency(interlock)
    /\ ~IlkIsLockedOut(interlock)

\* C2, as claimed: after the 100th consecutive safe update() following an
\* emergency declared by violations (no lockout), is_emergency() is false.
C2_ClearedByHundredthSafe ==
    (ret.op = "update" /\ safe_run = 100 /\ ~lockout_requested)
        => ~IlkIsEmergency(interlock)

\* C3: update() clears an active emergency only when at least 100 safe
\* results in a row have been fed since the last unsafe one; an unsafe result
\* sets the consecutive-safe counter to zero, so the count starts again.
C3_NoEarlyClear ==
    /\ (ret.op = "update" /\ prev_emergency /\ ~IlkIsEmergency(interlock))
           => safe_run >= 100
    /\ (ret.op = "update" /\ ~ret.args[1]) => interlock.safe_cycles = 0
    /\ interlock.safe_cycles = safe_run

\* an update() has just cleared an emergency
C3_Witness ==
    /\ ret.op = "update"
    /\ prev_emergency
    /\ ~IlkIsEmergency(interlock)
    /\ safe_run >= 100

\* C4: in every state reached by update, trigger_lockout and reset,
\* lockout implies emergency_active.
C4_LockoutImpliesEmergency ==
    interlock.lockout => interlock.emergency_active

\* locked out, and more safe results fed than would clear an emergency
C4_Witness ==
    /\ interlock.lockout
    /\ interlock.emergency_active
    /\ ret.op = "update"
    /\ interlock.safe_cycles > 100

\* C5: from trigger_lockout() until reset(), lockout and emergency stay true
\* whatever results update() is fed; after reset() lockout, emergency_active,
\* safe_cycles and violation_cycles are false/zero.
C5_LockoutSticky ==
    /\ lockout_requested =>
           /\ IlkIsLockedOut(interlock)
           /\ IlkIsEmergency(interlock)
           /\ ret.op = "update" => ret.val = TRUE
    /\ ret.op = "reset" =>
           /\ ~interlock.lockout
           /\ ~interlock.emergency_active
           /\ interlock.safe_cycles = 0
           /\ interlock.violation_cycles = 0

\* after trigger_lockout(), a mix of unsafe and then over 100 safe results
C5_Witness ==
    /\ lockout_requested
    /\ ret.op = "update"
    /\ ret.args[1]
    /\ safe_run > 100
    /\ IlkIsEmergency(interlock)

---------------------------------------------------------------------------
(* Properties of the HeightController, checked under Spec. *)

\* C6: a tick on which the interlock reports emergency returns Ok((0.0, 0.0))
\* and leaves the mode EmergencyLanding, whatever the mode and motion before.
C6_EmergencyTickZeroOutput ==
    (ret.op = "update" /\ IlkIsEmergency(interlock)) =>
        /\ ret.ok
        /\ ret.val = <<0, 0>>
        /\ mode.kind = "EmergencyLanding"

\* violations declared the emergency on a tick while a bobble animation ran
C6_Witness ==
    /\ ret.op = "update"
    /\ IlkIsEmergency(interlock)
    /\ ~IlkIsLockedOut(interlock)
    /\ IsSome(motion.animation)
    /\ ret.val = <<0, 0>>

\* C7: right after emergency_land() the mode is EmergencyLanding and
\* is_emergency() is true; from then until reset() every update() returns
\* (0.0, 0.0), for all inputs and whatever other commands are called.
C7_EmergencyLandSticky ==
    /\ ret.op = "emergency_land" =>
           /\ mode.kind = "EmergencyLanding"
           /\ IlkIsEmergency(interlock)
    /\ (lockout_requested /\ ret.op = "update") =>
           /\ ret.ok
           /\ ret.val = <<0, 0>>

\* after emergency_land() and a later land(), a tick with nominal inputs
C7_Witness ==
    /\ lockout_requested
    /\ ret.op = "update"
    /\ ret.args[2]
    /\ mode.kind = "EmergencyLanding"
    /\ IsSome(motion.trajectory)
    /\ ret.val = <<0, 0>>

\* the methods that command a motion
MotionCommands ==
    {"start_charging", "stop_charging", "set_height", "start_bobble",
     "stop_bobble", "land", "on_orb_placed"}

\* C8, as claimed: while the interlock reports emergency, every
\* motion-commanding method is rejected (those returning a Result return
\* Err) and changes neither the mode nor the motion generator.
C8_MotionCommandsRejected ==
    [][(IlkIsEmergency(interlock) /\ ret'.op \in MotionCommands) =>
           /\ ret'.op # "on_orb_placed" => ~ret'.ok
           /\ mode' = mode
           /\ motion' = motion]_vars

\* C9: when start_charging, stop_charging, set_height or start_bobble
\* returns Err, the mode, the motion generator (trajectory, animation,
\* baseline height), the interlock and the state snapshot are as before.
C9_ErrChangesNothing ==
    [][(ret'.op \in {"start_charging", "stop_charging", "set_height", "start_bobble"}
        /\ ~ret'.ok) =>
           /\ mode' = mode
           /\ motion' = motion
           /\ interlock' = interlock
           /\ state' = state]_vars

\* set_height was rejected for its range while a motion was active
C9_Witness ==
    /\ ret.op = "set_height"
    /\ ~ret.ok
    /\ ret.val = "HeightOutOfRange"
    /\ MotionIsActive(motion)
    /\ mode.kind # "Lifted"

\* C10: with no emergency, set_height(h, dur) returns Err(HeightOutOfRange)
\* and changes nothing when h < 5 or h > 25; otherwise it returns Ok, the
\* motion generator holds only a fresh trajectory from the last measured
\* height to h, and the mode is Float{h}.
C10_SetHeight ==
    [][(ret'.op = "set_height" /\ ~IlkIsEmergency(interlock)) =>
           LET h == ret'.args[1]
           IN  IF h < 5 * Milli \/ h > 25 * Milli
               THEN /\ ~ret'.ok
                    /\ ret'.val = "HeightOutOfRange"
                    /\ mode' = mode
                    /\ motion' = motion
                    /\ interlock' = interlock
                    /\ state' = state
               ELSE /\ ret'.ok
                    /\ mode' = ModeFloat(h)
                    /\ motion'.animation = None
                    /\ IsSome(motion'.trajectory)
                    /\ Unwrap(motion'.trajectory).start_height = state.height_mm
                    /\ Unwrap(motion'.trajectory).target_height = h
                    /\ Unwrap(motion'.trajectory).elapsed = 0]_vars

\* set_height(25, dur) accepted at a measured 15 mm, replacing an animation
C10_Witness ==
    /\ ret.op = "set_height"
    /\ ret.ok
    /\ ret.args[1] = 25 * Milli
    /\ cmds = 2
    /\ mode = ModeFloat(25 * Milli)
    /\ IsSome(motion.trajectory)
    /\ Unwrap(motion.trajectory).start_height = 15 * Milli

---------------------------------------------------------------------------
(* More properties of the HeightController, checked under Spec. *)

\* C12: reset(), in any state, returns Ok and leaves is_emergency() false,
\* lockout false, neither a trajectory nor an animation, and mode Float{20};
\* a motion command called right after it is not rejected for an emergency.
C12_Reset ==
    [][/\ ret'.op = "reset" =>
              /\ ret'.ok
              /\ ~IlkIsEmergency(interlock')
              /\ ~IlkIsLockedOut(interlock')
              /\ motion'.trajectory = None
              /\ motion'.animation = None
              /\ mode' = ModeFloat(20 * Milli)
       /\ (ret.op = "reset" /\ ret'.op \in MotionCommands) =>
              /\ ret'.val # "EmergencyLanding"
              /\ ret'.op \in {"start_charging", "stop_charging", "stop_bobble", "land"}
                     => ret'.ok]_vars

\* reset() has just ended the lockout of emergency_land()
C12_Witness ==
    /\ ret.op = "reset"
    /\ prev_emergency
    /\ ticks = 0
    /\ ~IlkIsEmergency(interlock)
    /\ ~IlkIsLockedOut(interlock)
    /\ mode = ModeFloat(20 * Milli)

---------------------------------------------------------------------------
(* Properties of start_bobble, checked under SpecBobble. *)

---------------------------------------------------------------------------
(* Properties of the HeightMotionGenerator, checked under SpecMotion. *)

\* C13: in every state reached by start_trajectory, start_animation, stop
\* and update, the generator holds at most one of trajectory and animation.
C13_AtMostOnePrimitive ==
    ~(IsSome(motion.trajectory) /\ IsSome(motion.animation))

\* a trajectory was started as the second call and is the only primitive
C13_Witness ==
    /\ ret.op = "start_trajectory"
    /\ cmds = 2
    /\ IsSome(motion.trajectory)
    /\ motion.animation = None

\* C14: starting a primitive cancels the other and installs the one given,
\* and the next update() is driven by the primitive started last: with an
\* animation its target lies within center +/- amplitude (or is the baseline
\* when the animation ends), with a trajectory between its start and target.
C14_LastStartedDrives ==
    [][/\ ret'.op = "start_trajectory" =>
              /\ motion'.animation = None
              /\ motion'.trajectory = Some(ret'.args[1])
       /\ ret'.op = "start_animation" =>
              /\ motion'.trajectory = None
              /\ motion'.animation = Some(ret'.args[1])
       /\ (ret.op = "start_animation" /\ ret'.op = "update") =>
              LET a == ret.args[1]
              IN  IF IsSome(motion'.animation)
                  THEN /\ ret'.val[1] >= a.center_height - a.amplitude
                       /\ ret'.val[1] <= a.center_height + a.amplitude
                       /\ motion'.trajectory = None
                  ELSE ret'.val = <<motion.baseline_height, 0>>
       /\ (ret.op = "start_trajectory" /\ ret'.op = "update") =>
              LET t == ret.args[1]
              IN  /\ ret'.val[1] >= Min(t.start_height, t.target_height)
                  /\ ret'.val[1] <= Max(t.start_height, t.target_height)
                  /\ motion'.animation = None]_vars

\* start_trajectory, start_animation, then one update() driven by the animation
C14_Witness ==
    /\ ret.op = "update"
    /\ cmds = 2
    /\ ticks = 1
    /\ motion.trajectory = None
    /\ IsSome(motion.animation)
    /\ ret.val[1] >= 11 * Milli
    /\ ret.val[1] <= 19 * Milli

\* C15: on the update() at which a trajectory's accumulated elapsed time
\* reaches its duration, the result is (target_height, 0), the baseline is
\* target_height and the trajectory is dropped (is_active() false), and not
\* before; an update() of an idle generator returns (baseline, 0) and changes
\* nothing.
C15_TrajectoryCompletion ==
    [][ret'.op = "update" =>
           /\ IsSome(motion.trajectory) =>
                  LET t == Unwrap(motion.trajectory)
                  IN  IF F32Add(t.elapsed, ret'.args[1]) >= t.duration
                      THEN /\ ret'.val = <<t.target_height, 0>>
                           /\ motion'.baseline_height = t.target_height
                           /\ motion'.trajectory = None
                           /\ ~MotionIsActive(motion')
                      ELSE /\ IsSome(motion'.trajectory)
                           /\ motion'.baseline_height = motion.baseline_height
           /\ ~MotionIsActive(motion) =>
                  /\ ret'.val = <<motion.baseline_height, 0>>
                  /\ motion' = motion]_vars

\* the 1 s rise to 25 mm has just completed on its second step of 0.5 s
C15_Witness ==
    /\ ret.op = "update"
    /\ ticks = 2
    /\ ret.args[1] = SEC \div 2
    /\ ret.val = <<25 * Milli, 0>>
    /\ motion.baseline_height = 25 * Milli
    /\ ~MotionIsActive(motion)

---------------------------------------------------------------------------
(* Properties of compute_barrier, checked under SpecVerifier. *)

\* the six constraint values of a SafetyResult, in evaluation order
ConstraintValues(r) ==
    << r.constraints.h_height_upper, r.constraints.h_height_lower,
       r.constraints.h_descent_rate, r.constraints.h_oscillation,
       r.constraints.h_thermal, r.constraints.h_power >>

SafetyCodes ==
    << "HeightUpperBound", "HeightLowerBound", "DescentRate", "Oscillation",
       "Thermal", "PowerFailure" >>

\* x > 0.0 in f32: false for NaN
F32Positive(x) == ~IsNaN(x) /\ x > 0

\* C16: for every LevitationState the SafetyResult of compute_barrier has
\* safe == true if and only if all six constraint values are > 0 (exactly 0
\* is unsafe), and its margin is the minimum of the six values: no
\* constraint value is below the margin and one of them equals it.
C16_SafeIffAllPositive ==
    ret.op = "compute_barrier" =>
        LET r == ret.val
            c == ConstraintValues(r)
        IN  /\ r.safe <=> \A i \in 1..6 : F32Positive(c[i])
            /\ \A i \in 1..6 : F32Ge(c[i], r.margin)
            /\ \E i \in 1..6 : c[i] = r.margin

\* C17 as stated: with power_supply_ok == false the result is unsafe and the
\* limiting constraint is PowerFailure, whatever the other fields hold.
C17_PowerFailureLimiting ==
    (ret.op = "compute_barrier" /\ ~state.power_supply_ok) =>
        /\ ~ret.val.safe
        /\ ret.val.limiting_constraint = "PowerFailure"

\* C17 amended: with power_supply_ok == false the result is unsafe with a
\* margin of at most -1, and the limiting constraint is PowerFailure exactly
\* when none of the other five constraint values is <= -1.
C17_PowerFailureUnsafe ==
    (ret.op = "compute_barrier" /\ ~state.power_supply_ok) =>
        LET r == ret.val
            c == ConstraintValues(r)
        IN  /\ ~r.safe
            /\ r.margin <= -H_ONE
            /\ r.limiting_constraint = "PowerFailure"
                   <=> ~\E i \in 1..5 : ~IsNaN(c[i]) /\ c[i] <= -H_ONE

\* a power failure in an otherwise safe state, as in test_power_failure
C17_Witness ==
    /\ ret.op = "compute_barrier"
    /\ state = [SafeState EXCEPT !.power_supply_ok = FALSE]
    /\ ~ret.val.safe
    /\ ret.val.limiting_constraint = "PowerFailure"

\* C18: the limiting constraint is the earliest constraint, in the order
\* height-upper, height-lower, descent-rate, oscillation, thermal, power,
\* whose value equals the margin, no constraint value is below the margin,
\* and the limiting constraint is never None.
C18_FirstMinimumLimits ==
    ret.op = "compute_barrier" =>
        LET r == ret.val
            c == ConstraintValues(r)
        IN  /\ r.limiting_constraint # "None"
            /\ \E i \in 1..6 :
                  /\ r.limiting_constraint = SafetyCodes[i]
                  /\ c[i] = r.margin
                  /\ \A j \in 1..(i - 1) : c[j] # r.margin
            /\ \A i \in 1..6 : ~IsNaN(c[i]) => c[i] >= r.margin

\* thermal and power share the minimum -1 and Thermal, the earlier, is named
C18_Witness ==
    /\ ret.op = "compute_barrier"
    /\ ret.val.constraints.h_thermal = -H_ONE
    /\ ret.val.constraints.h_power = -H_ONE
    /\ ret.val.margin = -H_ONE
    /\ ret.val.limiting_constraint = "Thermal"
---------------------------------------------------------------------------
(* Properties of update() over a long run, checked under SpecLongRun. *)

\* C19: an update() tick after which the interlock does not report emergency
\* leaves mode unchanged, also when a trajectory completes on that tick; on
\* a tick that changes mode the interlock reports emergency and the new mode
\* is EmergencyLanding.
C19_TickKeepsMode ==
    [][ret'.op = "update" =>
          /\ ~IlkIsEmergency(interlock') => mode' = mode
          /\ mode' # mode => IlkIsEmergency(interlock') /\ mode' = ModeEmergencyLanding
          /\ (IsSome(motion.trajectory) /\ ~IsSome(motion'.trajectory))
                 => ~IlkIsEmergency(interlock') /\ mode' = mode]_vars

\* set_height(25 mm, 0 ms) before the first tick, then the eleventh tick: the
\* 0.1 s trajectory has just completed and the mode is still Float at 25 mm
C19_Witness ==
    /\ ret.op = "update"
    /\ cmds = 1
    /\ ticks = MaxTicks - LongRunTicks + 11
    /\ ~IlkIsEmergency(interlock)
    /\ ~IsSome(motion.trajectory)
    /\ motion.baseline_height = HEIGHT_MAX_MM
    /\ mode = ModeFloat(HEIGHT_MAX_MM)
---------------------------------------------------------------------------
(* Properties of calibration loading, checked under SpecCalibration. *)

\* C20: a calibration table that violates the validity rules is rejected
\* when it is loaded through from_points and set_calibration, so the
\* controller keeps the table it had, and every update() converts with a
\* table that satisfies the rules.
C20_InvalidTableRejected ==
    [][/\ (ret'.op = "set_calibration" /\ ~is_valid(ret'.args[1]))
              => height_cal' = height_cal /\ height_cal' # ret'.args[1]
       /\ ret'.op = "update" => is_valid(height_cal)]_vars
---------------------------------------------------------------------------
(* Properties of the calibration conversions, checked under SpecTables. *)

\* the ADC values and the heights of the table's points in use
TableAdcs(cal) == {cal.points[i].adc_value : i \in 1 .. cal.num_points}

\* C21: for every table that is_valid() accepts, adc_to_height never
\* increases when the ADC value increases and height_to_dac never increases
\* when the height increases; an ADC value at or beyond the table's largest
\* or smallest ADC value gives the first or the last height of the table,
\* and a height at or beyond the table's first or last height gives the
\* first or the last actuator voltage of the table.
C21_MonotonicAndClamped ==
    LET cal == height_cal
        first == cal.points[1]
        last == cal.points[cal.num_points]
    IN  /\ ret.op = "adc_to_height" =>
              LET a == ret.args[1]
              IN  /\ \A a2 \in AdcSamples :
                        a2 >= a => F32Le(adc_to_height(cal, a2), ret.val)
                  /\ (\A x \in TableAdcs(cal) : a >= x) => ret.val = first.height_mm
                  /\ (\A x \in TableAdcs(cal) : a <= x) => ret.val = last.height_mm
        /\ ret.op = "height_to_dac" =>
              LET h == ret.args[1]
              IN  /\ \A h2 \in HeightSamples :
                        h2 >= h => F32Le(height_to_dac(cal, h2), ret.val)
                  /\ h <= first.height_mm => ret.val = first.dac_voltage
                  /\ h >= last.height_mm => ret.val = last.dac_voltage
---------------------------------------------------------------------------
(* Properties of land, on_orb_placed and start_charging, checked under       *)
(* SpecCommands.                                                             *)

\* C22: land() returns Ok in every state, emergency and lockout included;
\* it replaces any trajectory or animation by a trajectory from the last
\* measured height to HEIGHT_MIN_MM (5 mm) lasting 3 s and sets the mode to
\* Landing.
C22_Land ==
    [][ret'.op = "land" =>
          /\ ret'.ok
          /\ motion'.animation = None
          /\ motion'.trajectory =
                 Some([start_height |-> state.height_mm, target_height |-> 5 * Milli,
                       duration |-> 3 * SEC, elapsed |-> 0])
          /\ motion'.baseline_height = motion.baseline_height
          /\ mode'.kind = "Landing"
          /\ mode'.current_height_mm = state.height_mm]_vars

\* land() accepted while the interlock reports emergency and is locked out
C22_Witness ==
    /\ ret.op = "land"
    /\ ret.ok
    /\ IlkIsEmergency(interlock)
    /\ IlkIsLockedOut(interlock)
    /\ mode.kind = "Landing"
    /\ IsSome(motion.trajectory)

\* C23: on_orb_placed() changes neither mode nor trajectory, animation and
\* baseline when the interlock is locked out; otherwise it sets the mode to
\* Float at 20 mm and replaces any motion by a trajectory from 5 mm to 20 mm
\* lasting 1.5 s.
C23_OnOrbPlaced ==
    [][ret'.op = "on_orb_placed" =>
          IF IlkIsLockedOut(interlock)
          THEN mode' = mode /\ motion' = motion
          ELSE /\ mode' = ModeFloat(20 * Milli)
               /\ motion'.animation = None
               /\ motion'.trajectory =
                      Some([start_height |-> 5 * Milli, target_height |-> 20 * Milli,
                            duration |-> (3 * SEC) \div 2, elapsed |-> 0])
               /\ motion'.baseline_height = motion.baseline_height]_vars

\* on_orb_placed() while the interlock reports emergency without lockout,
\* after five failed ticks: the mode is Float again
C23_Witness ==
    /\ ret.op = "on_orb_placed"
    /\ IlkIsEmergency(interlock)
    /\ ~IlkIsLockedOut(interlock)
    /\ mode = ModeFloat(20 * Milli)
    /\ IsSome(motion.trajectory)

\* C24: start_charging() returns Err(EmergencyLanding) when the interlock
\* reports emergency; otherwise it returns Ok, cancels any animation, starts
\* a trajectory from the last measured height to HEIGHT_CHARGE_MM (5 mm)
\* lasting 2 s and sets the mode to Charging with target 5 mm and rate 0.
C24_StartCharging ==
    [][ret'.op = "start_charging" =>
          IF IlkIsEmergency(interlock)
          THEN ~ret'.ok /\ ret'.val = "EmergencyLanding"
          ELSE /\ ret'.ok
               /\ motion'.animation = None
               /\ motion'.trajectory =
                      Some([start_height |-> state.height_mm, target_height |-> 5 * Milli,
                            duration |-> 2 * SEC, elapsed |-> 0])
               /\ mode' = ModeCharging(5 * Milli, 0)]_vars

\* start_charging() accepted right after a start_bobble: the animation is
\* gone and the trajectory to the charge height is installed
C24_Witness ==
    /\ ret.op = "start_charging"
    /\ ret.ok
    /\ cmds = 2
    /\ ticks = 1
    /\ motion.animation = None
    /\ motion.trajectory = Some(to_charging(15 * Milli))
    /\ mode = ModeCharging(5 * Milli, 0)
---------------------------------------------------------------------------
(* Properties of the query methods, checked under SpecQueries. *)

Queries == {"state", "mode", "safety_status", "is_emergency"}

\* C25: state(), mode(), safety_status() and is_emergency() change no field
\* of the controller (calibration, motion, state, mode, interlock, last ADC
\* and DAC values, velocity filter, oscillation detector), so every later
\* update() and command starts from the same controller as without the
\* call; each returns the stored value it is named after.
C25_QueriesChangeNothing ==
    [][ret'.op \in Queries =>
          /\ UNCHANGED <<height_cal, wpt_cal, motion, state, mode, interlock,
                         last_adc_value, last_dac_voltage, velocity_filter,
                         oscillation_detector>>
          /\ ret'.ok
          /\ ret'.op = "state" => ret'.val = state
          /\ ret'.op = "mode" => ret'.val = mode
          /\ ret'.op = "safety_status" => ret'.val = compute_barrier(DefaultVerifier, state)
          /\ ret'.op = "is_emergency" => ret'.val = interlock.emergency_active]_vars

\* safety_status() called after two failed ticks: it reports the violation
\* and the interlock still counts two
C25_Witness ==
    /\ ret.op = "safety_status"
    /\ ~ret.val.safe
    /\ ticks = 2
    /\ interlock.violation_cycles = 2
    /\ ~IlkIsEmergency(interlock)
---------------------------------------------------------------------------
(* Properties of HeightTrajectory, checked under SpecSample. *)

\* C26: the constructor gives a duration of at least 0.1 s, the requested
\* one when that is 0.1 s or more; sample(t) is the start height for t <= 0
\* and the target height for t >= duration; sample_velocity(t) is 0 for
\* t <= 0 and for t >= duration.
C26_SampleEndpoints ==
    LET traj == Unwrap(motion.trajectory)
    IN  /\ traj.duration >= F32Quot(1, 10)
        /\ ret.op = "new" =>
              /\ ret.val.start_height = ret.args[1]
              /\ ret.val.target_height = ret.args[2]
              /\ ret.val.elapsed = 0
              /\ ret.val.duration =
                     IF F32Ge(ret.args[3], F32Quot(1, 10)) THEN ret.args[3]
                     ELSE F32Quot(1, 10)
        /\ ret.op = "sample" =>
              /\ ret.args[1] <= 0 => ret.val = traj.start_height
              /\ ret.args[1] >= traj.duration => ret.val = traj.target_height
        /\ (ret.op = "sample_velocity"
              /\ (ret.args[1] <= 0 \/ ret.args[1] >= traj.duration)) => ret.val = 0

\* sample(0.0) on a trajectory whose duration was floored to 0.1 s returns
\* the start height, which differs from the target
C26_Witness ==
    LET traj == Unwrap(motion.trajectory)
    IN  /\ ret.op = "sample"
        /\ ret.args = <<0>>
        /\ traj.duration = F32Quot(1, 10)
        /\ traj.start_height = 20 * Milli
        /\ traj.target_height = 5 * Milli
        /\ ret.val = 20 * Milli
---------------------------------------------------------------------------
(* Properties of animations, checked under SpecAnimation. *)

\* the commands that supersede an animation
Superseders ==
    {"set_height", "start_charging", "stop_charging", "land", "stop_bobble",
     "reset", "on_orb_lifted", "on_orb_placed"}

\* C27: an animation without a duration, as start_bobble installs it, is
\* still the generator's animation after every update, and a step that
\* removes it is one of the superseding commands, returning Ok; an
\* animation with a duration is kept, its elapsed time advanced, by an update
\* that leaves elapsed below the duration and dropped by the first update
\* that brings elapsed to the duration or beyond, and the generator's
\* update then returns the baseline height with velocity 0.
C27_AnimationLifetime ==
    [][IsSome(motion.animation) =>
          LET anim == Unwrap(motion.animation)
              dt == IF Len(ret'.args) = 1 THEN ret'.args[1] ELSE DT
              elapsed == F32Add(anim.elapsed, dt)
          IN  /\ (~IsSome(anim.duration) /\ ret'.op = "update")
                     => motion'.animation = Some([anim EXCEPT !.elapsed = elapsed])
              /\ (~IsSome(anim.duration) /\ ~IsSome(motion'.animation))
                     => ret'.op \in Superseders /\ ret'.ok
              /\ (IsSome(anim.duration) /\ ret'.op = "update")
                     => IF elapsed >= Unwrap(anim.duration)
                        THEN /\ motion'.animation = None
                             /\ Len(ret'.args) = 1
                                    => ret'.val = <<motion.baseline_height, 0>>
                        ELSE motion'.animation = Some([anim EXCEPT !.elapsed = elapsed])]_vars

\* start_bobble(3.0, 0.5) after the first tick and five more ticks: the
\* animation is still there, 50 ms into its cycle
C27_Witness ==
    /\ ret.op = "update"
    /\ ticks = 6
    /\ cmds = 1
    /\ mode = ModeBobble(15 * Milli, 3 * Milli, 500)
    /\ IsSome(motion.animation)
    /\ ~IsSome(Unwrap(motion.animation).duration)
    /\ Unwrap(motion.animation).elapsed > 4 * DT
---------------------------------------------------------------------------
(* Properties of the safety correction in update(), checked under            *)
(* SpecCorrection.                                                           *)

\* C28: on an update() tick after which the interlock does not report
\* emergency, the returned actuator voltage and transfer frequency are those
\* of the height h, where h is the motion generator's target when the
\* barrier of the new state has a margin > 0, and
\* clamp(target + corrective_action / 100, 5 mm, 25 mm) when the margin
\* is <= 0.
C28_CorrectionWhenUnsafe ==
    [][(ret'.op = "update" /\ ~IlkIsEmergency(interlock')) =>
          LET result == compute_barrier(DefaultVerifier, state')
              target == MotionUpdate(motion, DT).target
              h == IF result.margin <= 0
                   THEN Clamp(target + TruncDiv(corrective_action(DefaultVerifier, result),
                                                CONTROL_RATE_HZ),
                              5 * Milli, 25 * Milli)
                   ELSE target
          IN  /\ ret'.ok
              /\ ret'.val = <<height_to_dac(height_cal, h), optimal_frequency(wpt_cal, h)>>
              /\ last_dac_voltage' = ret'.val[1]]_vars

\* a tick with the coil at 85 C and the generator idle at 20 mm: the
\* voltage is that of 20.1 mm, 10 mm/s of emergency rise over 10 ms
C28_Witness ==
    /\ ret.op = "update"
    /\ ~IlkIsEmergency(interlock)
    /\ state.electromagnet_temp_c = 85 * Milli
    /\ ~MotionIsActive(motion)
    /\ motion.baseline_height = 20 * Milli
    /\ ret.val[1] = height_to_dac(height_cal, 20 * Milli + 100)
    /\ ret.val[1] # height_to_dac(height_cal, 20 * Milli)
---------------------------------------------------------------------------
(* Properties of the OscillationDetector, checked under SpecDetector.        *)

\* C29: amplitude() returns 0 while fewer than 32 heights have been given to
\* the detector since new(); from the 32nd on it returns the largest minus
\* the smallest of the 32 heights given last, so a slot still holding its
\* initial zero never enters a reported amplitude.
C29_AmplitudeOfLast32 ==
    ret.op = "amplitude" =>
        LET n == Len(recorded)
            last == {recorded[i] : i \in (n - 31) .. n}
        IN  ret.val = IF n < 32 THEN 0
                      ELSE (CHOOSE x \in last : \A y \in last : y <= x)
                           - (CHOOSE x \in last : \A y \in last : y >= x)

\* 33 heights given, the first and the last of them 16 mm and the rest
\* 15 mm: the first has left the buffer and the amplitude is the 1 mm
\* between the last and the rest
C29_Witness ==
    /\ ret.op = "amplitude"
    /\ Len(recorded) = 33
    /\ recorded[1] = 16 * Milli
    /\ recorded[33] = 16 * Milli
    /\ \A i \in 2 .. 32 : recorded[i] = 15 * Milli
    /\ ret.val = 1 * Milli
---------------------------------------------------------------------------
(* Properties of what update() returns, checked under SpecReturns.           *)

\* C30: every call of update(), in every state the controller can reach and
\* for every reading, supply flag and coil temperature, has the result Ok,
\* on ticks with a safety violation or an active emergency too.
C30_UpdateReturnsOk ==
    ret.op = "update" => ret.ok
---------------------------------------------------------------------------
(* Properties of the mode across an emergency, checked under SpecClear.      *)

\* C31: after an update() tick, a mode of EmergencyLanding means that
\* is_emergency() is true, and so that the tick returned (0.0, 0.0).
C31_EmergencyModeIsEmergency ==
    (ret.op = "update" /\ mode = ModeEmergencyLanding) =>
        (IlkIsEmergency(interlock) /\ ret.val = EmergencyOutput)
---------------------------------------------------------------------------
(* Properties of the state snapshot, checked under Spec.                     *)

\* C32: after every update() tick the mode held in the snapshot, state().mode,
\* is the controller's mode(), on the tick that declares emergency too.
C32_SnapshotModeIsMode ==
    ret.op = "update" => state.mode = mode
---------------------------------------------------------------------------
(* Properties relating the mode to the motion generator, checked under Spec. *)

\* C33: whenever the mode is Float{h} and the motion generator has neither a
\* trajectory nor an animation, the baseline height it holds is h.
C33_FloatHeightIsBaseline ==
    (mode.kind = "Float" /\ ~MotionIsActive(motion)) =>
        motion.baseline_height = mode.height_mm
---------------------------------------------------------------------------
(* Properties of the motion generator across emergency ticks, checked under  *)
(* SpecCommands.                                                             *)

\* C34: an update() tick on which the interlock reports emergency leaves the
\* motion generator as it was: trajectory, animation, their elapsed times and
\* the baseline.
C34_EmergencyTickKeepsMotion ==
    [][(ret'.op = "update" /\ IlkIsEmergency(interlock')) => motion' = motion]_vars

\* a bobble started, an emergency, and a tick: the animation is still there
\* and has not begun to run
C34_Witness ==
    /\ ret.op = "update"
    /\ IlkIsEmergency(interlock)
    /\ ret.val = EmergencyOutput
    /\ IsSome(motion.animation)
    /\ Unwrap(motion.animation) = NewAnimation(15 * Milli, 3 * Milli, 500)
---------------------------------------------------------------------------
(* Properties of the outputs of update(), checked under SpecOutputs.         *)

\* C35: with the default calibration, update() returns (0.0, 0.0) on a tick
\* with emergency, and otherwise an actuator voltage within the table's
\* 0.5 .. 2.5 V and a transfer frequency within 132000 .. 141000 Hz, also
\* after on_orb_lifted has set the baseline to 0.
C35_OutputsInRange ==
    ret.op = "update" =>
        /\ ret.ok
        /\ IF IlkIsEmergency(interlock)
           THEN ret.val = <<0, 0>>
           ELSE /\ ret.val[1] >= 500 /\ ret.val[1] <= 2500
                /\ ret.val[2] >= 132000 /\ ret.val[2] <= 141000

\* the orb lifted, then a tick: the baseline of 0 is below the range and the
\* outputs are those of the 5 mm end of both tables
C35_Witness ==
    /\ ret.op = "update"
    /\ ~IlkIsEmergency(interlock)
    /\ mode = ModeLifted
    /\ motion.baseline_height = 0
    /\ ret.val = <<2500, 132000>>
---------------------------------------------------------------------------
(* Properties of the height barriers inside update(), checked under          *)
(* SpecReadings.                                                             *)

\* C36: with the default calibration and the default thresholds, after every
\* update() the measured height is within 5 .. 25 mm, the upper and the
\* lower height barrier of the state are > 0, and a result that is unsafe
\* is never limited by a height bound, whatever the readings were.
C36_HeightBarriersPositive ==
    ret.op = "update" =>
        LET result == compute_barrier(DefaultVerifier, state)
        IN  /\ state.height_mm >= 5 * Milli /\ state.height_mm <= 25 * Milli
            /\ h_height_upper(DefaultVerifier, state) > 0
            /\ h_height_lower(DefaultVerifier, state) > 0
            /\ result.constraints.h_height_upper > 0
            /\ result.constraints.h_height_lower > 0
            /\ ~result.safe =>
                  result.limiting_constraint \notin {"HeightUpperBound", "HeightLowerBound"}

\* a reading of 0, far below the table: the height is the 25 mm of the last
\* point and the upper barrier (30 - 25) / 10 = 0.5
C36_Witness ==
    /\ ret.op = "update"
    /\ ret.args[1] = 0
    /\ state.height_mm = 25 * Milli
    /\ 2 * h_height_upper(DefaultVerifier, state) = H_ONE
---------------------------------------------------------------------------
(* Properties of an accepted bobble that the orb follows, checked under      *)
(* SpecBobbleRun.                                                            *)

\* the 32 heights measured last reach both ends of the bobble's range, to
\* within 0.1 mm
Swept ==
    /\ IsSome(motion.animation)
    /\ Len(recorded) >= 32
    /\ LET anim == Unwrap(motion.animation)
           last == {recorded[i] : i \in (Len(recorded) - 31) .. Len(recorded)}
       IN  /\ \E h \in last : h >= anim.center_height + anim.amplitude - 100
           /\ \E h \in last : h <= anim.center_height - anim.amplitude + 100

\* C37: when start_bobble has accepted an amplitude and the measured height
\* follows the bobble, sweeping its whole range within 32 ticks, the
\* oscillation barrier of the state is > 0 and no emergency is declared.
C37_AcceptedBobbleIsSafe ==
    (ret.op = "update" /\ Swept) =>
        /\ h_oscillation(DefaultVerifier, state) > 0
        /\ ~IlkIsEmergency(interlock)
---------------------------------------------------------------------------
(* Properties of the start-up of the controller, checked under SpecStartup.  *)

\* C38: from a new controller, ticks with the same reading, the supply on
\* and the coil below the warning threshold never declare emergency: every
\* such tick has a safe result, the first ones included, where the velocity
\* filter and the oscillation buffer still hold their initial zeros.
C38_StartupIsSafe ==
    /\ ~IlkIsEmergency(interlock)
    /\ ret.op = "update" =>
          /\ compute_barrier(DefaultVerifier, state).safe
          /\ ret.val # EmergencyOutput
          /\ interlock.violation_cycles = 0

\* the 33rd tick: the buffer has filled with equal heights and reports 0,
\* and all 33 results were safe
C38_Witness ==
    /\ ret.op = "update"
    /\ Len(recorded) = 33
    /\ oscillation_detector.filled
    /\ state.oscillation_amplitude_mm = 0
    /\ state.velocity_mm_s >= 0
    /\ interlock.safe_cycles = 33
    /\ ~IlkIsEmergency(interlock)
---------------------------------------------------------------------------
(* The modes the controller takes, checked under Spec.                       *)

\* C39: no sequence of update() ticks and command methods sets the mode to
\* Transitioning: the mode is always one of Lifted, Float, Charging, Bobble,
\* Landing and EmergencyLanding.
C39_ModeNeverTransitioning ==
    /\ mode.kind # "Transitioning"
    /\ mode.kind \in {"Lifted", "Float", "Charging", "Bobble", "Landing",
                      "EmergencyLanding"}

\* a timed set_height was accepted and its trajectory is running: the mode
\* is already Float at the target
C39_Witness ==
    /\ ret.op = "set_height"
    /\ ret.ok
    /\ ret.args[2] > 0
    /\ IsSome(motion.trajectory)
    /\ mode = ModeFloat(ret.args[1])
    /\ mode.height_mm # state.height_mm
====
